---------------------------- MODULE Spec2Model ----------------------------
(***************************************************************************)
(* A model of the letta agent runtime: the step loop of LettaAgent         *)
(* (letta/agents/letta_agent.py), the tool-rule solver it consults, the    *)
(* broadcast fan-out built on it, and the Anthropic streaming accumulator  *)
(* (letta/interfaces/anthropic_streaming_interface.py).                    *)
(***************************************************************************)
EXTENDS Integers, Sequences, FiniteSets, TLC

(***************************************************************************)
(* Bounds of the model.                                                    *)
(***************************************************************************)
\* largest max_steps a caller of step() passes
MaxSteps == 5
\* replies of one turn that name a tool the model was not offered
MaxStray == 1
\* number of events one streaming interface reads
MaxEvents == 6
\* number of tokens in one fragment of a streamed argument string
MaxFrag == 2
\* number of InitToolRule an agent is created with
MaxInitRules == 2
\* largest max_steps of the step() that is followed statement by statement
MaxTurnSteps == 3
\* edits of the memory blocks during one step()
MaxEdits == 1
\* events of a stream whose block starts arrive at any point
MaxFlowEvents == 4
\* reasoning messages recorded during one stream
MaxReasoning == 3
\* chunks of a streamed completion
MaxChunks == 2

\* default of step()'s max_steps parameter, used by the nested step() calls
DefaultMaxSteps == 10

(***************************************************************************)
(* Values.                                                                 *)
(***************************************************************************)
\* the "no value" of an optional tool name (default_child = None)
NoTool == "<null>"
\* the absent output of a call registered without its output
NoOutput == "<none>"
\* a name the model may produce that no agent has a tool for
GhostTool == "ghost"
BroadcastTool == "send_message_to_agents_matching_tags"
DEFAULT_MESSAGE_TOOL == "send_message"

EmptyMap == [x \in {} |-> x]

Last(s) == s[Len(s)]

RECURSIVE SeqToSet(_)
SeqToSet(s) == IF s = <<>> THEN {} ELSE {Head(s)} \cup SeqToSet(Tail(s))

(***************************************************************************)
(* Agents and their configuration (agent_state.tools, agent_state.tool_   *)
(* rules).  The top-level agent "mgr" runs one of the scenarios; the       *)
(* workers are the agents a broadcast can reach.                           *)
(***************************************************************************)
Workers == {"w1", "w2"}
Agents == {"mgr"} \cup Workers

Scenarios == {"chain", "gate", "flip", "continue", "free", "broadcast"}

NoRules ==
    [init |-> {}, child |-> EmptyMap, cond |-> EmptyMap, terminal |-> {},
     cont |-> {}, max_count |-> EmptyMap, required |-> {},
     constrain |-> EmptyMap, parent_last |-> EmptyMap]

\* [Init(A), Child(A,[B]), Child(B,[C]), Terminal(C)]
ChainRules ==
    [NoRules EXCEPT !.init = {"A"},
                    !.child = ("A" :> {"B"}) @@ ("B" :> {"C"}),
                    !.terminal = {"C"}]

\* Terminal(T), RequiredBeforeExit(R), Continue(T), MaxCountPerStep(R, 2)
GateRules ==
    [NoRules EXCEPT !.terminal = {"T"}, !.required = {"R"}, !.cont = {"T"},
                    !.max_count = ("R" :> 2)]

\* Init(flip), Conditional(flip, default_child=flip, {heads: reveal}), Terminal(reveal)
FlipRules ==
    [NoRules EXCEPT !.init = {"flip"},
                    !.cond = ("flip" :> [default_child |-> "flip",
                                         mapping |-> ("heads" :> "reveal")]),
                    !.terminal = {"reveal"}]

\* Continue(send_message), Terminal(core_memory_append)
ContinueRules ==
    [NoRules EXCEPT !.cont = {DEFAULT_MESSAGE_TOOL}, !.terminal = {"core_memory_append"}]

\* Init(broadcast), Child(broadcast, [send_message]), Terminal(send_message)
BroadcastRules ==
    [NoRules EXCEPT !.init = {BroadcastTool},
                    !.child = (BroadcastTool :> {DEFAULT_MESSAGE_TOOL}),
                    !.terminal = {DEFAULT_MESSAGE_TOOL}]

\* a worker has the base rule Terminal(send_message)
WorkerRules == [NoRules EXCEPT !.terminal = {DEFAULT_MESSAGE_TOOL}]

\* agent_state.tool_rules
ToolRulesOf(agent, scn) ==
    IF agent \in Workers THEN WorkerRules
    ELSE CASE scn = "chain" -> ChainRules
           [] scn = "gate" -> GateRules
           [] scn = "flip" -> FlipRules
           [] scn = "continue" -> ContinueRules
           [] scn = "broadcast" -> BroadcastRules
           [] OTHER -> NoRules

\* agent_state.tools, by name
ToolsOf(agent, scn) ==
    IF agent \in Workers THEN {DEFAULT_MESSAGE_TOOL}
    ELSE CASE scn = "chain" -> {"A", "B", "C"}
           [] scn = "gate" -> {"T", "R"}
           [] scn = "flip" -> {"flip", "reveal"}
           [] scn = "continue" -> {DEFAULT_MESSAGE_TOOL, "core_memory_append"}
           [] scn = "free" -> {"echo"}
           [] OTHER -> {BroadcastTool, DEFAULT_MESSAGE_TOOL}

\* tool.tool_type
ToolType(t) ==
    CASE t \in {DEFAULT_MESSAGE_TOOL, "core_memory_append"} -> "letta_core"
      [] t = BroadcastTool -> "letta_multi_agent_core"
      [] OTHER -> "custom"

\* what a tool's function can return when it runs without raising
\* (a failure inside the tool is returned by its executor as an error text)
ToolOutputs(t) ==
    CASE t = "flip" -> {"heads", "tails"}
      [] t = "echo" -> {"ok", "error"}
      [] OTHER -> {"ok"}


(***************************************************************************)
(* ToolRulesSolver.  Rules are a record of the rule kinds; the call        *)
(* history is the sequence of (tool_name, output_value) pairs of the turn. *)
(***************************************************************************)
CalledTools(history) == {history[k].tool : k \in 1..Len(history)}

CallCount(history, tool_name) ==
    Cardinality({k \in 1..Len(history) : history[k].tool = tool_name})

\* legal_tools(all_available)
legal_tools(rules, history, all_available) ==
    IF history = <<>>
    THEN IF rules.init = {} THEN all_available ELSE rules.init \cap all_available
    ELSE LET last == Last(history).tool
             by_child == IF last \in DOMAIN rules.child
                         THEN rules.child[last] ELSE all_available
             by_constrain == IF last \in DOMAIN rules.constrain
                             THEN by_child \cap rules.constrain[last] ELSE by_child
             by_parent == {t \in DOMAIN rules.parent_last : rules.parent_last[t] = last}
         IN  (by_constrain \cup by_parent) \cap all_available

\* forced_next_tool(last_output_value): NoTool when nothing is forced
forced_next_tool(rules, history, last_output_value) ==
    IF history = <<>> \/ Last(history).tool \notin DOMAIN rules.cond
    THEN NoTool
    ELSE LET rule == rules.cond[Last(history).tool]
         IN  IF last_output_value \in DOMAIN rule.mapping
             THEN rule.mapping[last_output_value]
             ELSE IF last_output_value # NoOutput /\ "*" \in DOMAIN rule.mapping
                  THEN rule.mapping["*"]
                  ELSE rule.default_child

\* register_call(tool_name, output_value): the history after the call
register_call(history, tool_name, output_value) ==
    Append(history, [tool |-> tool_name, output |-> output_value])

\* (mutant) no bound on the number of calls is enforced
RuleViolation_Never(rules, history, tool_name) == FALSE

\* the RuleViolation register_call raises: a MaxCountPerStep bound is exceeded
RuleViolation(rules, history, tool_name) ==
    /\ tool_name \in DOMAIN rules.max_count
    /\ CallCount(history, tool_name) > rules.max_count[tool_name]

\* must_stop()
must_stop(rules, history) ==
    /\ history # <<>>
    /\ Last(history).tool \in rules.terminal
    /\ rules.required \subseteq CalledTools(history)

(***************************************************************************)
(* The solver as LettaAgent calls it.                                      *)
(***************************************************************************)
\* tool_rules_solver.register_tool_call(tool_name=tool_call_name): the call
\* hands the solver the tool's name and not its output
register_tool_call(history, tool_name) ==
    register_call(history, tool_name, NoOutput)

\* (mutant) every available tool is allowed, whatever the rules say
get_allowed_tool_names_All(rules, history, available_tools) == available_tools

\* tool_rules_solver.get_allowed_tool_names(available_tools=...): the call
\* passes no tool output, so the solver has the output of its own history
get_allowed_tool_names(rules, history, available_tools) ==
    LET forced == IF history = <<>> THEN NoTool
                  ELSE forced_next_tool(rules, history, Last(history).output)
    IN  IF forced # NoTool THEN {forced}
        ELSE legal_tools(rules, history, available_tools)

\* tool_rules_solver.is_terminal_tool(tool_name), asked right after the call
\* to tool_name was registered: the solver's must_stop()
is_terminal_tool(rules, history, tool_name) ==
    /\ tool_name \in rules.terminal
    /\ must_stop(rules, history)

\* tool_rules_solver.has_children_tools(tool_name): declared children
has_children_tools(rules, tool_name) ==
    \/ tool_name \in DOMAIN rules.child /\ rules.child[tool_name] # {}
    \/ tool_name \in DOMAIN rules.cond

\* tool_rules_solver.is_continue_tool(tool_name)
is_continue_tool(rules, tool_name) == tool_name \in rules.cont

(***************************************************************************)
(* The model's reply: one tool call (name, argument string).  An argument  *)
(* string is malformed JSON, JSON that is not an object, or an object that *)
(* may carry request_heartbeat.                                            *)
(***************************************************************************)
HeartbeatValues ==
    { [t |-> "absent"],
      [t |-> "bool", b |-> TRUE], [t |-> "bool", b |-> FALSE],
      [t |-> "str", s |-> <<"T", "r", "u", "e">>], [t |-> "str", s |-> <<"n", "o">>],
      [t |-> "int", n |-> 0], [t |-> "int", n |-> 1] }

ArgumentStrings ==
    { [kind |-> "malformed"], [kind |-> "nonobject"] }
    \cup { [kind |-> "object", hb |-> v] : v \in HeartbeatValues }

NoResponse == [tool |-> NoTool]

\* str.lower() on the characters the model uses
LowerChar(c) ==
    CASE c = "T" -> "t" [] c = "R" -> "r" [] c = "U" -> "u" [] c = "E" -> "e"
      [] OTHER -> c

Lower(str) == [k \in 1..Len(str) |-> LowerChar(str[k])]

\* json.loads(tool_call_args_str), a JSONDecodeError giving {}: the kind of
\* value tool_args holds
ParsedArgs(args) ==
    IF args.kind = "malformed" THEN [kind |-> "object", hb |-> [t |-> "absent"]]
    ELSE args

\* (mutant) a string is compared with "true" as it is written
CoerceHeartbeat_CaseSensitive(v) ==
    CASE v.t = "absent" -> FALSE
      [] v.t = "bool" -> v.b
      [] v.t = "str" -> v.s = <<"t", "r", "u", "e">>
      [] OTHER -> v.n # 0

\* tool_args.pop("request_heartbeat", False) and its coercion to a bool
CoerceHeartbeat(v) ==
    CASE v.t = "absent" -> FALSE
      [] v.t = "bool" -> v.b
      [] v.t = "str" -> Lower(v.s) = <<"t", "r", "u", "e">>
      [] OTHER -> v.n # 0

(***************************************************************************)
(* One step() invocation.  Each agent has at most one in flight: the       *)
(* top-level step() of "mgr", and the nested step() a broadcast starts on  *)
(* each of its targets.                                                    *)
(***************************************************************************)
VARIABLES
    scenario,   \* which configuration the top-level agent has
    run,        \* run[a]: the step() invocation on agent a
    interface,  \* the streaming interface that reads one response
    stream,     \* the response stream it reads, and what it has yielded
    call,       \* the last call of a function that keeps no state: its input and outcome
    engine      \* one step() of one agent, from one await to the next

\* no function has been called
NoCall == [fn |-> "<none>"]

IdleRun(use_assistant_message) ==
    [use_assistant_message |-> use_assistant_message,
     pc |-> "idle", max_steps |-> 0, iterations |-> 0, history |-> <<>>,
     offered |-> {}, response |-> NoResponse, calls |-> <<>>,
     persisted |-> <<>>, continue_stepping |-> FALSE, error |-> "",
     targets |-> {}, results |-> <<>>, llm_usage |-> 0, returned |-> <<>>,
     turn |-> 0]

\* (mutant) the loop runs one iteration more than max_steps
LoopNext_OffByOne(r) ==
    IF r.iterations <= r.max_steps /\ (r.iterations = 0 \/ r.continue_stepping)
    THEN "awaiting_model" ELSE "done"

\* the loop header and what follows the loop: another iteration, or the
\* translation of the persisted messages and the return
LoopNext(r) ==
    IF r.iterations < r.max_steps /\ (r.iterations = 0 \/ r.continue_stepping)
    THEN "awaiting_model" ELSE "done"

\* message.to_letta_message raises ValueError on a send_message call whose
\* arguments lack the message, when such calls become assistant messages
Translatable(use_assistant_message, persisted) ==
    \/ ~use_assistant_message
    \/ \A k \in 1..Len(persisted) :
          (persisted[k].role = "assistant" /\ persisted[k].name = DEFAULT_MESSAGE_TOOL)
             => persisted[k].has_message

\* message.to_letta_message: the caller-facing messages of a persisted
\* message
to_letta_message(self, use_assistant_message) ==
    CASE self.role = "assistant" ->
            IF use_assistant_message /\ self.name = DEFAULT_MESSAGE_TOOL
            THEN <<[type |-> "assistant_message", name |-> self.name]>>
            ELSE <<[type |-> "tool_call_message", name |-> self.name]>>
      [] self.role = "tool" ->
            <<[type |-> "tool_return_message", name |-> self.name,
               status |-> IF self.success THEN "success" ELSE "error"]>>
      [] self.role = "user" ->
            <<[type |-> "user_message", name |-> self.name]>>
      [] self.role = "system" ->
            <<[type |-> "system_message", name |-> self.name]>>

\* the loop of step() over the persisted messages
RECURSIVE ResponseMessages(_, _)
ResponseMessages(persisted, use_assistant_message) ==
    IF persisted = <<>> THEN <<>>
    ELSE to_letta_message(Head(persisted), use_assistant_message)
         \o ResponseMessages(Tail(persisted), use_assistant_message)

\* LettaUsageStatistics(): the total of a usage record nothing was added to
LettaUsageStatistics == 0

\* the end of step(): the persisted messages are translated for the caller
\* and returned with the usage statistics
Return(r) ==
    IF r.pc # "done" THEN r
    ELSE IF ~Translatable(r.use_assistant_message, r.persisted)
    THEN [r EXCEPT !.pc = "raised", !.error = "ValueError"]
    ELSE [r EXCEPT !.returned =
             <<[messages |-> ResponseMessages(r.persisted, r.use_assistant_message),
                usage |-> LettaUsageStatistics]>>]

\* (mutant) the solver of the step() comes with a call already in its
\* history
StepStart_StaleSolver(use_assistant_message, max_steps) ==
    LET r == [IdleRun(use_assistant_message) EXCEPT
                 !.max_steps = max_steps,
                 !.history = <<[tool |-> DEFAULT_MESSAGE_TOOL, output |-> NoOutput]>>,
                 !.persisted = <<[role |-> "user", name |-> "input"]>>]
    IN  Return([r EXCEPT !.pc = LoopNext(r)])

\* step() up to the loop: the inbound message is persisted and a fresh
\* ToolRulesSolver is made
StepStart(use_assistant_message, max_steps) ==
    LET r == [IdleRun(use_assistant_message) EXCEPT
                 !.max_steps = max_steps,
                 !.persisted = <<[role |-> "user", name |-> "input"]>>]
    IN  Return([r EXCEPT !.pc = LoopNext(r)])

\* the tools _get_ai_reply may offer, before the solver narrows them
AvailableTools(agent, scn) ==
    {t \in ToolsOf(agent, scn) :
        \/ ToolType(t) = "custom"
        \/ ToolType(t) = "letta_core" /\ t = DEFAULT_MESSAGE_TOOL
        \/ ToolType(t) = "letta_multi_agent_core" /\ t = BroadcastTool}

\* (mutant) the schemas of all the tools are sent, allowed or not
AllowedTools_Unfiltered(agent, scn, history) == AvailableTools(agent, scn)

\* the tool schemas sent to the model
AllowedTools(agent, scn, history) ==
    LET tools == AvailableTools(agent, scn)
        valid_tool_names == get_allowed_tool_names(ToolRulesOf(agent, scn), history, tools)
    IN  {t \in tools : t \in valid_tool_names}

\* the calls of a turn so far that named a tool the model was not offered
Strays(calls) == Cardinality({k \in 1..Len(calls) : ~calls[k].offered})

\* the tool calls a completion can carry after its first: none, or for the
\* chain-ruled agent one more call of an attached tool
FurtherToolCalls(agent, scn) ==
    {<<>>} \cup (IF agent \notin Workers /\ scn = "chain"
                 THEN {<<[tool |-> t, args |-> [kind |-> "object", hb |-> [t |-> "absent"]]]>> :
                          t \in ToolsOf(agent, scn)}
                 ELSE {})

\* chat_completion_response.choices[0].message.tool_calls
ToolCallsOf(response) ==
    <<[tool |-> response.tool, args |-> response.args]>> \o response.more

\* (mutant) the last tool call of the response is handled
FirstToolCall_Last(tool_calls) == tool_calls[Len(tool_calls)]

\* tool_calls[0]: the tool call _handle_ai_response handles
FirstToolCall(tool_calls) == tool_calls[1]

\* the total tokens a completion can report in its usage: either amount for
\* a completion of the gate-ruled agent, one amount for the others
Usages(agent, scn) == IF agent \notin Workers /\ scn = "gate" THEN {1, 2} ELSE {1}

\* the replies the model is taken to give.  The top-level agent's model
\* names an offered tool or, at most MaxStray times a turn, any other name
\* (attached or not); a worker's model names an offered tool.  Every value
\* of request_heartbeat is tried in the rule-free scenario.
Replies(agent, scn, offered, calls) ==
    LET names == IF agent \notin Workers /\ Strays(calls) < MaxStray
                 THEN ToolsOf(agent, scn) \cup {GhostTool} ELSE offered
        args == IF agent \in Workers
                THEN {[kind |-> "malformed"], [kind |-> "object", hb |-> [t |-> "absent"]]}
                ELSE IF scn = "free" THEN ArgumentStrings
                ELSE {[kind |-> "malformed"], [kind |-> "nonobject"],
                      [kind |-> "object", hb |-> [t |-> "absent"]],
                      [kind |-> "object", hb |-> [t |-> "bool", b |-> TRUE]]}
    IN  {[tool |-> t, args |-> a, usage |-> u, more |-> m] :
            t \in names, a \in args, u \in Usages(agent, scn),
            m \in FurtherToolCalls(agent, scn)}

(***************************************************************************)
(* _handle_ai_response and what it calls.                                  *)
(***************************************************************************)
\* (mutant) a tool that is not attached is reported as a success
ExecuteTool_NotFoundSucceeds(agent, scn, tool_name) ==
    IF tool_name \notin ToolsOf(agent, scn)
    THEN {[result |-> "Tool not found", success |-> TRUE]}
    ELSE {[result |-> o, success |-> TRUE] : o \in ToolOutputs(tool_name)}
         \cup {[result |-> "Failed to call tool", success |-> FALSE]}

\* _execute_tool for a tool other than the broadcast: the (result, success)
\* pairs it can return.  A tool's own failure is caught by its executor and
\* comes back as text, with the success flag still True; the flag is False
\* when the tool is not attached or the execution manager raises.
ExecuteTool(agent, scn, tool_name) ==
    IF tool_name \notin ToolsOf(agent, scn)
    THEN {[result |-> "Tool not found", success |-> FALSE]}
    ELSE {[result |-> o, success |-> TRUE] : o \in ToolOutputs(tool_name)}
         \cup {[result |-> "Failed to call tool", success |-> FALSE]}

\* (mutant) the terminal check is left out
ContinueStepping_NoTerminal(rules, history, tool_call_name, request_heartbeat) ==
    IF has_children_tools(rules, tool_call_name) THEN TRUE
    ELSE IF is_continue_tool(rules, tool_call_name) THEN TRUE
    ELSE request_heartbeat

\* (mutant) the continue rule is consulted before the terminal check
ContinueStepping_ContinueFirst(rules, history, tool_call_name, request_heartbeat) ==
    IF is_continue_tool(rules, tool_call_name) THEN TRUE
    ELSE IF is_terminal_tool(rules, history, tool_call_name) THEN FALSE
    ELSE IF has_children_tools(rules, tool_call_name) THEN TRUE
    ELSE request_heartbeat

\* (mutant) the continue rule is not consulted
ContinueStepping_NoContinue(rules, history, tool_call_name, request_heartbeat) ==
    IF is_terminal_tool(rules, history, tool_call_name) THEN FALSE
    ELSE IF has_children_tools(rules, tool_call_name) THEN TRUE
    ELSE request_heartbeat

\* continue_stepping, from request_heartbeat and the solver
ContinueStepping(rules, history, tool_call_name, request_heartbeat) ==
    IF is_terminal_tool(rules, history, tool_call_name) THEN FALSE
    ELSE IF has_children_tools(rules, tool_call_name) THEN TRUE
    ELSE IF is_continue_tool(rules, tool_call_name) THEN TRUE
    ELSE request_heartbeat

\* (mutant) the heartbeat notice is added whether or not the loop continues
ToolCallMessages_AlwaysHeartbeat(function_name, function_arguments, function_call_success, add_heartbeat_request_system_message) ==
    <<IF function_name = DEFAULT_MESSAGE_TOOL
      THEN [role |-> "assistant", name |-> function_name,
            has_message |-> function_arguments # "empty"]
      ELSE [role |-> "assistant", name |-> function_name],
      [role |-> "tool", name |-> function_name, success |-> function_call_success],
      [role |-> "user", name |-> "heartbeat"]>>

\* create_tool_call_messages_from_openai_response: the tool-call message, the
\* tool-result message and, when continuing, the heartbeat notice
ToolCallMessages(function_name, function_arguments, function_call_success, add_heartbeat_request_system_message) ==
    <<IF function_name = DEFAULT_MESSAGE_TOOL
      THEN [role |-> "assistant", name |-> function_name,
            has_message |-> function_arguments # "empty"]
      ELSE [role |-> "assistant", name |-> function_name],
      [role |-> "tool", name |-> function_name, success |-> function_call_success]>>
    \o (IF add_heartbeat_request_system_message
        THEN <<[role |-> "user", name |-> "heartbeat"]>> ELSE <<>>)

\* (mutant) a call whose execution failed is not registered with the solver
AfterExecute_RegisterOnSuccess(agent, scn, r, out) ==
    LET rules == ToolRulesOf(agent, scn)
        tool_call == FirstToolCall(ToolCallsOf(r.response))
        tool_call_name == tool_call.tool
        request_heartbeat == CoerceHeartbeat(ParsedArgs(tool_call.args).hb)
        tool_args == IF tool_call.args.kind = "malformed" THEN "empty" ELSE "given"
        history == IF out.success THEN register_tool_call(r.history, tool_call_name)
                   ELSE r.history
        executed == [r EXCEPT !.history = history,
                              !.calls = Append(@, [tool |-> tool_call_name,
                                                   output |-> out.result,
                                                   success |-> out.success,
                                                   offered |-> tool_call_name \in r.offered])]
        continue_stepping == ContinueStepping(rules, history, tool_call_name, request_heartbeat)
        persisted == [executed EXCEPT
                        !.continue_stepping = continue_stepping,
                        !.persisted = @ \o ToolCallMessages(tool_call_name, tool_args,
                                                            out.success, continue_stepping)]
    IN  IF RuleViolation(rules, history, tool_call_name)
        THEN [executed EXCEPT !.pc = "raised", !.error = "RuleViolation"]
        ELSE Return([persisted EXCEPT !.pc = LoopNext(persisted)])

\* _handle_ai_response from the return of _execute_tool on: the call is
\* registered with the solver, continue_stepping is resolved, the messages
\* are persisted, and the loop of step() goes on or ends
AfterExecute(agent, scn, r, out) ==
    LET rules == ToolRulesOf(agent, scn)
        tool_call == FirstToolCall(ToolCallsOf(r.response))
        tool_call_name == tool_call.tool
        request_heartbeat == CoerceHeartbeat(ParsedArgs(tool_call.args).hb)
        tool_args == IF tool_call.args.kind = "malformed" THEN "empty" ELSE "given"
        history == register_tool_call(r.history, tool_call_name)
        executed == [r EXCEPT !.history = history,
                              !.calls = Append(@, [tool |-> tool_call_name,
                                                   output |-> out.result,
                                                   success |-> out.success,
                                                   offered |-> tool_call_name \in r.offered])]
        continue_stepping == ContinueStepping(rules, history, tool_call_name, request_heartbeat)
        persisted == [executed EXCEPT
                        !.continue_stepping = continue_stepping,
                        !.persisted = @ \o ToolCallMessages(tool_call_name, tool_args,
                                                            out.success, continue_stepping)]
    IN  IF RuleViolation(rules, history, tool_call_name)
        THEN [executed EXCEPT !.pc = "raised", !.error = "RuleViolation"]
        ELSE Return([persisted EXCEPT !.pc = LoopNext(persisted)])

(***************************************************************************)
(* Broadcast: _send_message_to_agents_matching_tags.                       *)
(***************************************************************************)
\* matching_agents as a list, in the order list_agents_matching_tags gives
TargetList(targets) ==
    (IF "w1" \in targets THEN <<"w1">> ELSE <<>>)
    \o (IF "w2" \in targets THEN <<"w2">> ELSE <<>>)

\* the content of the AssistantMessages of a response: one per send_message
\* call persisted, or "<no response>"
SendMessageContent(r) ==
    LET sent == SelectSeq(r.persisted,
                          LAMBDA m : m.role = "assistant" /\ m.name = DEFAULT_MESSAGE_TOOL)
    IN  IF sent # <<>> THEN [k \in 1..Len(sent) |-> "message"] ELSE <<"<no response>">>

\* process_agent: the target's step() result, or its exception captured
process_agent(agent, r) ==
    IF r.pc = "raised"
    THEN [agent_id |-> agent, kind |-> "error", error |-> r.error]
    ELSE [agent_id |-> agent, kind |-> "response", response |-> SendMessageContent(r)]

\* (mutant) a target whose step() raised gets no entry
Gather_DropFailed(targets, runs) ==
    LET list == SelectSeq(TargetList(targets), LAMBDA t : runs[t].pc # "raised")
    IN  [k \in 1..Len(list) |-> process_agent(list[k], runs[list[k]])]

\* asyncio.gather(*tasks): one result per task, in task order
Gather(targets, runs) ==
    LET list == TargetList(targets)
    IN  [k \in 1..Len(list) |-> process_agent(list[k], runs[list[k]])]

(***************************************************************************)
(* The streaming accumulator (AnthropicStreamingInterface).                *)
(*                                                                         *)
(* A tool call's argument string is a sequence of tokens: "{" and "}",     *)
(* a key token ("k:<key>" stands for the quoted key, the colon and the     *)
(* opening quote of its string value), the characters of a value, and      *)
(* "end", the closing quote of a value.  The provider streams it in        *)
(* fragments of consecutive tokens.                                        *)
(***************************************************************************)
INNER_THOUGHTS_KWARG == "inner_thoughts"

DEFAULT_MESSAGE_TOOL_KWARG == "message"

KeyTokens == {"k:inner_thoughts", "k:message", "k:x"}

KeyOf(t) ==
    CASE t = "k:inner_thoughts" -> INNER_THOUGHTS_KWARG
      [] t = "k:message" -> DEFAULT_MESSAGE_TOOL_KWARG
      [] OTHER -> "x"

StreamToolNames == {DEFAULT_MESSAGE_TOOL, "echo"}

\* the argument strings the provider streams for a call of the tool
Documents(name) ==
    IF name = DEFAULT_MESSAGE_TOOL
    THEN { <<"{", "k:inner_thoughts", "a", "b", "end", "k:message", "c", "d", "end", "}">> }
    ELSE { <<"{", "k:inner_thoughts", "a", "end", "k:x", "c", "end", "}">>,
           <<"{", "k:x", "c", "end", "}">>,
           <<"{", "k:inner_thoughts", "a", "end", "}">> }

\* the text fragments the provider streams
TextFragments == { <<"h">>, <<"h", "</thinking>">> }

\* (mutant) a reversed join of the fragments
RECURSIVE Flatten_Reversed(_)
Flatten_Reversed(fragments) ==
    IF fragments = <<>> THEN <<>>
    ELSE Flatten_Reversed(Tail(fragments)) \o Head(fragments)

RECURSIVE Flatten(_)
\* "".join(fragments)
Flatten(fragments) ==
    IF fragments = <<>> THEN <<>> ELSE Head(fragments) \o Flatten(Tail(fragments))

\* text.replace("</thinking>", "")
StripThinking(text) == SelectSeq(text, LAMBDA ch : ch # "</thinking>")

\* dict.get(key, "")
Get(parsed, key) == IF key \in DOMAIN parsed THEN parsed[key] ELSE <<>>

\* current[len(previous):]
Suffix(current, previous) == SubSeq(current, Len(previous) + 1, Len(current))

RECURSIVE ParseFrom(_, _, _, _)
ParseFrom(toks, i, key, obj) ==
    IF i > Len(toks) THEN obj
    ELSE LET t == toks[i]
         IN  CASE t = "}" -> obj
               [] t = "{" -> obj
               [] t \in KeyTokens ->
                     ParseFrom(toks, i + 1, KeyOf(t), (KeyOf(t) :> <<>>) @@ obj)
               [] t = "end" -> ParseFrom(toks, i + 1, "", obj)
               [] OTHER ->
                     IF key = "" THEN obj
                     ELSE ParseFrom(toks, i + 1, key, [obj EXCEPT ![key] = Append(@, t)])

\* the best-effort parse of a possibly incomplete argument string: the keys
\* that have appeared so far, each with as much of its value as has arrived;
\* what follows the end of the first object is left aside
optimistic_json_parser_parse(combined_args) ==
    IF combined_args = <<>> \/ combined_args[1] # "{"
    THEN EmptyMap
    ELSE ParseFrom(combined_args, 2, "", EmptyMap)

\* (mutant) the inner thoughts count as complete as soon as their key appears
check_inner_thoughts_complete_KeyOnly(put_inner_thoughts_in_kwarg, parsed) ==
    IF ~put_inner_thoughts_in_kwarg
    THEN TRUE
    ELSE INNER_THOUGHTS_KWARG \in DOMAIN parsed

\* (mutant) the inner thoughts count as complete from the first fragment on
check_inner_thoughts_complete_Always(put_inner_thoughts_in_kwarg, parsed) == TRUE

check_inner_thoughts_complete(put_inner_thoughts_in_kwarg, parsed) ==
    IF ~put_inner_thoughts_in_kwarg
    THEN TRUE
    ELSE Cardinality(DOMAIN parsed) > 1 /\ INNER_THOUGHTS_KWARG \in DOMAIN parsed

\* (mutant) only the text deltas are checked against the mode
IntegrityFails_TextOnly(kind, anthropic_mode) ==
    kind = "text" /\ anthropic_mode # "TEXT"

\* the safety checks of the four kinds of delta
IntegrityFails(kind, anthropic_mode) ==
    CASE kind = "text" -> anthropic_mode # "TEXT"
      [] kind = "json" -> anthropic_mode # "TOOL_USE"
      [] kind = "thinking" -> anthropic_mode # "THINKING"
      [] kind = "signature" -> anthropic_mode # "THINKING"

\* the interface after __init__
FreshInterface(use_assistant_message, put_inner_thoughts_in_kwarg) ==
    [use_assistant_message |-> use_assistant_message,
     put_inner_thoughts_in_kwarg |-> put_inner_thoughts_in_kwarg,
     anthropic_mode |-> "NONE",
     accumulated_inner_thoughts |-> <<>>,
     tool_call_name |-> NoTool,
     accumulated_tool_call_args |-> <<>>,
     previous_parse |-> EmptyMap,
     input_tokens |-> 0,
     output_tokens |-> 0,
     tool_call_buffer |-> <<>>,
     inner_thoughts_complete |-> FALSE]

\* a stream nothing has been read from: the argument string of the tool
\* call the provider is sending, how much of it has been sent, the events
\* process() has consumed, the messages it has yielded, and the exception
\* that ended it
FreshStream ==
    [doc |-> <<>>, sent |-> 0, consumed |-> <<>>, yielded |-> <<>>, error |-> ""]

Event(type, kind, data) == [type |-> type, kind |-> kind, data |-> data]

ToolCallMessage(name, arguments) ==
    [type |-> "tool_call", name |-> name, arguments |-> arguments]

ReasoningMessage(reasoning) ==
    [type |-> "reasoning", name |-> NoTool, arguments |-> reasoning]

AssistantMessage(content) ==
    [type |-> "assistant", name |-> NoTool, arguments |-> content]

HiddenReasoningMessage ==
    [type |-> "hidden_reasoning", name |-> NoTool, arguments |-> <<>>]

\* the branch of process() for a content block start; the result is the
\* interface and the messages yielded
OnBlockStart(self, kind, name) ==
    CASE kind = "text" ->
            [self |-> [self EXCEPT !.anthropic_mode = "TEXT"], yield |-> <<>>]
      [] kind = "tool_use" ->
            [self |-> [self EXCEPT
                         !.anthropic_mode = "TOOL_USE",
                         !.tool_call_name = name,
                         !.inner_thoughts_complete = FALSE,
                         !.tool_call_buffer =
                             IF ~self.use_assistant_message
                             THEN Append(@, ToolCallMessage(name, <<>>))
                             ELSE @],
             yield |-> <<>>]
      [] kind = "thinking" ->
            [self |-> [self EXCEPT !.anthropic_mode = "THINKING"], yield |-> <<>>]
      [] kind = "redacted_thinking" ->
            [self |-> [self EXCEPT !.anthropic_mode = "REDACTED_THINKING"],
             yield |-> <<HiddenReasoningMessage>>]

\* the branch of process() for a text delta that passed its safety check
OnTextDelta(self, text) ==
    [self |-> [self EXCEPT !.accumulated_inner_thoughts =
                                Append(@, StripThinking(text))],
     yield |-> <<ReasoningMessage(StripThinking(text))>>]

\* the branch of process() for an input JSON delta that passed its safety
\* check
OnInputJSONDelta(self, partial_json) ==
    LET args == Append(self.accumulated_tool_call_args, partial_json)
        combined_args == Flatten(args)
        current_parsed == optimistic_json_parser_parse(combined_args)
        inner_thoughts_diff ==
            Suffix(Get(current_parsed, INNER_THOUGHTS_KWARG),
                   Get(self.previous_parse, INNER_THOUGHTS_KWARG))
        reasoning == IF inner_thoughts_diff # <<>>
                     THEN <<ReasoningMessage(inner_thoughts_diff)>> ELSE <<>>
        flush == /\ ~self.inner_thoughts_complete
                 /\ check_inner_thoughts_complete(self.put_inner_thoughts_in_kwarg,
                                                  current_parsed)
        complete == self.inner_thoughts_complete \/ flush
        flushed == IF flush THEN self.tool_call_buffer ELSE <<>>
        kept == IF flush THEN <<>> ELSE self.tool_call_buffer
        shortcut == /\ self.tool_call_name = DEFAULT_MESSAGE_TOOL
                    /\ self.use_assistant_message
        send_message_diff ==
            Suffix(Get(current_parsed, DEFAULT_MESSAGE_TOOL_KWARG),
                   Get(self.previous_parse, DEFAULT_MESSAGE_TOOL_KWARG))
        tool_call_msg == ToolCallMessage(NoTool, partial_json)
        last == IF shortcut
                THEN IF send_message_diff # <<>>
                     THEN <<AssistantMessage(send_message_diff)>> ELSE <<>>
                ELSE IF complete THEN <<tool_call_msg>> ELSE <<>>
    IN  [self |-> [self EXCEPT
                     !.accumulated_tool_call_args = args,
                     !.inner_thoughts_complete = complete,
                     !.tool_call_buffer =
                         IF ~shortcut /\ ~complete THEN Append(kept, tool_call_msg)
                         ELSE kept,
                     !.previous_parse = current_parsed],
         yield |-> reasoning \o flushed \o last]

\* (mutant) a block stop resets the mode and leaves the buffer as it is
OnBlockStop_NoFlush(self) ==
    [self |-> [self EXCEPT !.anthropic_mode = "NONE"], yield |-> <<>>]

\* the branch of process() for a content block stop
OnBlockStop(self) ==
    LET flush == self.anthropic_mode = "TOOL_USE" /\ self.tool_call_buffer # <<>>
    IN  [self |-> [self EXCEPT !.anthropic_mode = "NONE",
                               !.tool_call_buffer = IF flush THEN <<>> ELSE @],
         yield |-> IF flush THEN self.tool_call_buffer ELSE <<>>]

(***************************************************************************)
(* Converting one complete provider response into a chat completion        *)
(* (AnthropicClient and GoogleVertexClient), and the tool call the         *)
(* streaming interface hands over at the end of a stream.                  *)
(***************************************************************************)
\* the order in which the keys of an argument object are written out
KeyOrder == <<INNER_THOUGHTS_KWARG, DEFAULT_MESSAGE_TOOL_KWARG, "x">>

TokenOf(key) ==
    CASE key = INNER_THOUGHTS_KWARG -> "k:inner_thoughts"
      [] key = DEFAULT_MESSAGE_TOOL_KWARG -> "k:message"
      [] OTHER -> "k:x"

RECURSIVE DumpFrom(_, _)
DumpFrom(obj, i) ==
    IF i > Len(KeyOrder) THEN <<>>
    ELSE (IF KeyOrder[i] \in DOMAIN obj
          THEN <<TokenOf(KeyOrder[i])>> \o obj[KeyOrder[i]] \o <<"end">>
          ELSE <<>>) \o DumpFrom(obj, i + 1)

\* json.dumps of an argument object: its argument string
json_dumps(obj) == <<"{">> \o DumpFrom(obj, 1) \o <<"}">>

\* (mutant) the key stays in the object
Pop_Keep(obj, key) == obj

\* the object without the key
Pop(obj, key) == [k \in DOMAIN obj \ {key} |-> obj[k]]

\* the argument objects a provider returns in a complete response
ArgumentObjects ==
    {optimistic_json_parser_parse(doc) : doc \in UNION {Documents(name) : name \in StreamToolNames}}

\* get_tool_call_object: the tool call at the end of the stream
get_tool_call_object(self) ==
    [name |-> self.tool_call_name,
     arguments |-> Flatten(self.accumulated_tool_call_args)]

\* the stop reasons of an Anthropic message
AnthropicStopReasons ==
    {"end_turn", "stop_sequence", "max_tokens", "tool_use", "pause_turn", "refusal"}

Returned(value) == [outcome |-> "returned", value |-> value]

Raised(error) == [outcome |-> "raised", error |-> error]

\* (mutant) a tool use is reported as an ordinary stop
remap_finish_reason_ToolUseStops(stop_reason) ==
    CASE stop_reason \in {"end_turn", "stop_sequence", "tool_use"} -> Returned("stop")
      [] stop_reason = "max_tokens" -> Returned("length")
      [] OTHER -> Raised("ValueError")

remap_finish_reason(stop_reason) ==
    CASE stop_reason = "end_turn" -> Returned("stop")
      [] stop_reason = "stop_sequence" -> Returned("stop")
      [] stop_reason = "max_tokens" -> Returned("length")
      [] stop_reason = "tool_use" -> Returned("function_call")
      [] OTHER -> Raised("ValueError")

\* strip_xml_tags(string, tag="thinking")
strip_xml_tags(text) == SelectSeq(text, LAMBDA ch : ch \notin {"<thinking>", "</thinking>"})

\* the contents of an Anthropic message: no part, a text, a tool use, or a
\* text and a tool use
AnthropicContents ==
    LET texts == {[type |-> "text", text |-> <<"<thinking>", "h", "</thinking>">>]}
        tools == {[type |-> "tool_use", name |-> name, input |-> input] :
                    name \in StreamToolNames, input \in ArgumentObjects}
    IN  {<<>>} \cup {<<t>> : t \in texts} \cup {<<u>> : u \in tools}
        \cup {<<t, u>> : t \in texts, u \in tools}

AnthropicResponses ==
    {[stop_reason |-> s, content |-> c] : s \in AnthropicStopReasons, c \in AnthropicContents}

\* the last part of the type, as the loop over the parts keeps it
LastPart(content, type) ==
    LET ks == {k \in 1..Len(content) : content[k].type = type}
    IN  IF ks = {} THEN <<>> ELSE <<content[CHOOSE k \in ks : \A j \in ks : j <= k]>>

\* unpack_all_inner_thoughts_from_kwargs: the inner thoughts leave the
\* arguments of the tool call and become the content of the message
unpack_all_inner_thoughts_from_kwargs(message) ==
    IF message.tool_calls # <<>>
       /\ INNER_THOUGHTS_KWARG \in DOMAIN optimistic_json_parser_parse(message.tool_calls[1].arguments)
    THEN LET args == optimistic_json_parser_parse(message.tool_calls[1].arguments)
         IN  [message EXCEPT
                !.content = args[INNER_THOUGHTS_KWARG],
                !.tool_calls = <<[name |-> message.tool_calls[1].name,
                                  arguments |-> json_dumps(Pop(args, INNER_THOUGHTS_KWARG))]>>]
    ELSE message

\* AnthropicClient.convert_response_to_chat_completion
convert_response_to_chat_completion(response, put_inner_thoughts_in_kwargs) ==
    LET finish_reason == remap_finish_reason(response.stop_reason)
        text == LastPart(response.content, "text")
        tool_use == LastPart(response.content, "tool_use")
        message ==
            [finish_reason |-> finish_reason.value,
             content |-> IF text = <<>> THEN <<>> ELSE strip_xml_tags(text[1].text),
             tool_calls |-> IF tool_use = <<>> THEN <<>>
                            ELSE <<[name |-> tool_use[1].name,
                                    arguments |-> json_dumps(tool_use[1].input)]>>]
    IN  IF finish_reason.outcome = "raised" THEN finish_reason
        ELSE IF response.content = <<>> THEN Raised("RuntimeError")
        ELSE IF put_inner_thoughts_in_kwargs
             THEN Returned(unpack_all_inner_thoughts_from_kwargs(message))
             ELSE Returned(message)

\* the finish reasons of a Google AI candidate
GoogleFinishReasons ==
    {"STOP", "MAX_TOKENS", "SAFETY", "RECITATION", "OTHER", "FINISH_REASON_UNSPECIFIED"}

\* the part of a candidate that is converted: a function call or a text
GoogleParts ==
    {[function_call |-> TRUE, name |-> name, args |-> args] :
        name \in StreamToolNames, args \in ArgumentObjects}
    \cup {[function_call |-> FALSE, text |-> <<"h">>]}

\* GoogleVertexClient.convert_response_to_chat_completion, for one candidate
convert_google_candidate(finish_reason, part, put_inner_thoughts_in_kwargs) ==
    LET pops == part.function_call /\ put_inner_thoughts_in_kwargs
        tool_calls ==
            IF part.function_call
            THEN <<[name |-> part.name,
                    arguments |-> json_dumps(IF pops THEN Pop(part.args, INNER_THOUGHTS_KWARG)
                                             ELSE part.args)]>>
            ELSE <<>>
        content == IF ~part.function_call THEN part.text
                   ELSE IF pops THEN part.args[INNER_THOUGHTS_KWARG] ELSE <<>>
        openai_finish_reason ==
            CASE finish_reason = "STOP" ->
                    Returned(IF tool_calls # <<>> THEN "function_call" ELSE "stop")
              [] finish_reason = "MAX_TOKENS" -> Returned("length")
              [] finish_reason = "SAFETY" -> Returned("content_filter")
              [] finish_reason = "RECITATION" -> Returned("content_filter")
              [] OTHER -> Raised("ValueError")
    IN  IF pops /\ INNER_THOUGHTS_KWARG \notin DOMAIN part.args
        THEN Raised("AssertionError")
        ELSE IF openai_finish_reason.outcome = "raised" THEN openai_finish_reason
        ELSE Returned([finish_reason |-> openai_finish_reason.value,
                       content |-> content, tool_calls |-> tool_calls])

(***************************************************************************)
(* The arguments of a tool call as json.loads gives them: an object from   *)
(* keys to JSON values.  A value that is no bool and no string has a size  *)
(* n: the number itself, the length of a list, 0 for null.                 *)
(***************************************************************************)
JSONValues ==
    {[t |-> "bool", b |-> b] : b \in BOOLEAN}
    \cup {[t |-> "str", s |-> s] :
            s \in {<<"t", "r", "u", "e">>, <<"T", "r", "u", "e">>, <<"T", "R", "U", "E">>,
                   <<"f", "a", "l", "s", "e">>, <<"y", "e", "s">>, <<>>,
                   <<" ", "t", "r", "u", "e">>}}
    \cup {[t |-> "int", n |-> n] : n \in 0..2}
    \cup {[t |-> "null", n |-> 0]}
    \cup {[t |-> "list", n |-> n] : n \in 0..1}

\* the argument objects of a tool call: with or without request_heartbeat,
\* with or without another argument
ToolArgs ==
    UNION {[keys -> JSONValues] : keys \in SUBSET {"request_heartbeat", DEFAULT_MESSAGE_TOOL_KWARG}}

\* the lines of _handle_ai_response that take request_heartbeat out of the
\* arguments and coerce it to a bool
pop_request_heartbeat(tool_args) ==
    LET request_heartbeat == IF "request_heartbeat" \in DOMAIN tool_args
                             THEN tool_args["request_heartbeat"]
                             ELSE [t |-> "bool", b |-> FALSE]
    IN  Returned([request_heartbeat |-> CoerceHeartbeat(request_heartbeat),
                  tool_args |-> Pop(tool_args, "request_heartbeat")])

(***************************************************************************)
(* get_reasoning_content: the reasoning messages recorded during a stream  *)
(* are merged into content blocks.                                         *)
(***************************************************************************)
NoSignature == "<none>"

\* a ReasoningMessage as process() records it
RecordedReasoning(source, reasoning, signature) ==
    [kind |-> "reasoning", source |-> source, text |-> reasoning, signature |-> signature]

\* a HiddenReasoningMessage as process() records it
RecordedHidden(hidden_reasoning) ==
    [kind |-> "redacted", source |-> "", text |-> hidden_reasoning, signature |-> NoSignature]

\* the messages process() can record: reasoning from a text delta or from
\* the inner thoughts of the arguments, native reasoning from a thinking
\* delta, the signature of a signature delta, redacted reasoning
RecordedMessages ==
    {RecordedReasoning("non_reasoner_model", <<"h">>, NoSignature),
     RecordedReasoning("non_reasoner_model", <<"</thinking>">>, NoSignature),
     RecordedReasoning("reasoner_model", <<"th">>, NoSignature),
     RecordedReasoning("reasoner_model", <<>>, "sig"),
     RecordedHidden(<<"r">>)}

\* the lists of recorded messages, in their order of arrival
ReasoningLists == UNION {[1..n -> RecordedMessages] : n \in 0..MaxReasoning}

\* "".join of the texts of the group
JoinTexts(group) == Flatten([k \in 1..Len(group) |-> group[k].text])

\* next((chunk.signature for chunk in group if chunk.signature is not None), None)
FirstSignature(group) ==
    LET signed == SelectSeq(group, LAMBDA chunk : chunk.signature # NoSignature)
    IN  IF signed = <<>> THEN NoSignature ELSE signed[1].signature

\* (mutant) the signature is looked for in the first chunk of the group only
process_group_FirstChunkOnly(group, group_type) ==
    IF group_type = "reasoning"
    THEN IF \E k \in 1..Len(group) : group[k].source = "reasoner_model"
         THEN [type |-> "reasoning", text |-> JoinTexts(group),
               signature |-> group[1].signature]
         ELSE [type |-> "text", text |-> JoinTexts(group), signature |-> NoSignature]
    ELSE [type |-> "redacted_reasoning", text |-> JoinTexts(group),
          signature |-> NoSignature]

\* _process_group: the content block of a group of messages of one type
process_group(group, group_type) ==
    IF group_type = "reasoning"
    THEN IF \E k \in 1..Len(group) : group[k].source = "reasoner_model"
         THEN [type |-> "reasoning", text |-> JoinTexts(group),
               signature |-> FirstSignature(group)]
         ELSE [type |-> "text", text |-> JoinTexts(group), signature |-> NoSignature]
    ELSE [type |-> "redacted_reasoning", text |-> JoinTexts(group),
          signature |-> NoSignature]

\* the loop over self.reasoning_messages and the final group
RECURSIVE MergeFrom(_, _, _, _, _)
MergeFrom(reasoning_messages, i, current_group, current_group_type, merged) ==
    IF i > Len(reasoning_messages)
    THEN IF current_group # <<>>
         THEN Append(merged, process_group(current_group, current_group_type))
         ELSE merged
    ELSE LET msg == reasoning_messages[i]
             msg_type == msg.kind
             group_type == IF current_group_type = "" THEN msg_type
                           ELSE current_group_type
         IN  IF msg_type # group_type
             THEN MergeFrom(reasoning_messages, i + 1, <<msg>>, msg_type,
                            Append(merged, process_group(current_group, group_type)))
             ELSE MergeFrom(reasoning_messages, i + 1, Append(current_group, msg),
                            group_type, merged)

\* content.text[:cutoff] of a text block that ends with "</thinking>"
StripClosingTag(content) ==
    IF /\ content.type = "text"
       /\ content.text # <<>>
       /\ Last(content.text) = "</thinking>"
    THEN [content EXCEPT !.text = SubSeq(@, 1, Len(@) - 1)]
    ELSE content

get_reasoning_content(reasoning_messages) ==
    LET merged == MergeFrom(reasoning_messages, 1, <<>>, "", <<>>)
    IN  [k \in 1..Len(merged) |-> StripClosingTag(merged[k])]

(***************************************************************************)
(* The targets of a broadcast (_send_message_to_agents_matching_tags).     *)
(***************************************************************************)
Tags == {"team", "worker"}

\* the tags of the agents of the organisation
AgentTags(agent) ==
    CASE agent = "mgr" -> {"team"}
      [] agent = "w1" -> {"team", "worker"}
      [] OTHER -> {"worker"}

\* agent_manager.list_agents_matching_tags(actor, match_all, match_some):
\* the agents of the actor that carry every tag of match_all and, if
\* match_some is given, one of its tags
list_agents_matching_tags(match_all, match_some) ==
    IF match_all = {} /\ match_some = {} THEN {}
    ELSE {agent \in Agents :
             /\ match_all \subseteq AgentTags(agent)
             /\ match_some = {} \/ match_some \cap AgentTags(agent) # {}}

\* the agents _send_message_to_agents_matching_tags creates a task for when
\* the step() of the sender executes the broadcast tool
BroadcastTargets(sender, match_all, match_some) ==
    list_agents_matching_tags(match_all, match_some)

(***************************************************************************)
(* anthropic_chat_completions_process_stream: the calls it makes on the    *)
(* stream interface while it reads the chunks of a streamed completion.    *)
(***************************************************************************)
\* the classes of the stream interface: the two the function handles and
\* any other
StreamInterfaces == {"AgentChunkStreamingInterface", "AgentRefreshStreamingInterface", "other"}

\* the chunks of a stream: a chunk the loop accumulates, or a chunk whose
\* delta carries an old-style function_call, which raises NotImplementedError
ChunkLists == UNION {[1..n -> {"delta", "function_call"}] : n \in 0..MaxChunks}

\* the loop over the chunks: the calls made on the interface, and the
\* exception that ended the loop, if any
RECURSIVE ProcessChunks(_, _, _, _)
ProcessChunks(chunks, chunk_idx, stream_interface, calls) ==
    IF chunk_idx > Len(chunks) THEN [calls |-> calls, error |-> ""]
    ELSE IF stream_interface = "other" THEN [calls |-> calls, error |-> "TypeError"]
    ELSE LET processed ==
                 Append(calls, IF stream_interface = "AgentChunkStreamingInterface"
                               THEN "process_chunk" ELSE "process_refresh")
         IN  IF chunks[chunk_idx] = "function_call"
             THEN [calls |-> processed, error |-> "NotImplementedError"]
             ELSE ProcessChunks(chunks, chunk_idx + 1, stream_interface, processed)

\* stream_start, the loop inside try, stream_end in the except clause and
\* stream_end in the finally clause
anthropic_chat_completions_process_stream(chunks, stream_interface) ==
    LET loop == ProcessChunks(chunks, 1, stream_interface, <<"stream_start">>)
    IN  IF loop.error # ""
        THEN [calls |-> loop.calls \o <<"stream_end">> \o <<"stream_end">>,
              outcome |-> Raised(loop.error)]
        ELSE [calls |-> loop.calls \o <<"stream_end">>,
              outcome |-> Returned(Len(chunks))]

(***************************************************************************)
(* One step() of one agent, statement by statement: the system message and *)
(* the memory it is compiled from, the in-context window of each LLM call, *)
(* and the order of the events of the turn.  The agent has one tool and no *)
(* tool rules.  A text is a sequence of tokens.                            *)
(***************************************************************************)
\* the agent and the configuration the turn is taken with
EngineAgent == "mgr"

EngineScenario == "free"

\* agent_state.memory.compile(): the compiled memory strings
Memories == {<<"a">>, <<"a", "b">>, <<"c">>}

\* str in text
Contains(text, str) ==
    \E i \in 0..(Len(text) - Len(str)) : SubSeq(text, i + 1, i + Len(str)) = str

\* compile_system_message: the system prompt, the memory and the time of
\* the memory's last edit
compile_system_message(in_context_memory, in_context_memory_last_edit) ==
    <<"system_prompt">> \o in_context_memory \o <<"edited", ToString(in_context_memory_last_edit)>>

SystemMessage(text) == [role |-> "system", name |-> "system", text |-> text]

\* united_diff(a, b): the lines that differ
united_diff(a, b) == IF a = b THEN <<>> ELSE <<a, b>>

\* (mutant) the system message is rebuilt whether or not it holds the memory
rebuild_memory_Always(in_context_messages, curr_memory_str, memory_edit_timestamp) ==
    LET new_system_message_str ==
            compile_system_message(curr_memory_str, memory_edit_timestamp)
    IN  [in_context_messages |-> <<SystemMessage(new_system_message_str)>>
                                 \o Tail(in_context_messages),
         update |-> <<new_system_message_str>>]

\* _rebuild_memory: the in-context messages it returns, and the content it
\* gives to update_message_by_id, if any
rebuild_memory(in_context_messages, curr_memory_str, memory_edit_timestamp) ==
    LET curr_system_message_text == in_context_messages[1].text
        new_system_message_str ==
            compile_system_message(curr_memory_str, memory_edit_timestamp)
    IN  IF Contains(curr_system_message_text, curr_memory_str)
        THEN [in_context_messages |-> in_context_messages, update |-> <<>>]
        ELSE IF united_diff(curr_system_message_text, new_system_message_str) # <<>>
        THEN [in_context_messages |-> <<SystemMessage(new_system_message_str)>>
                                      \o Tail(in_context_messages),
              update |-> <<new_system_message_str>>]
        ELSE [in_context_messages |-> in_context_messages, update |-> <<>>]

\* a step() that has not been called: the memory blocks and the system
\* message in the database, and the locals of step()
IdleEngine(blocks, db_system) ==
    [pc |-> "idle", blocks |-> blocks, db_system |-> db_system, clock |-> 1,
     max_steps |-> 0, iterations |-> 0,
     system_message |-> <<>>, persisted_letta_messages |-> <<>>,
     in_context_messages |-> <<>>, given |-> <<>>, history |-> <<>>,
     response |-> NoResponse, continue_stepping |-> FALSE,
     rewrites |-> 0, edits |-> 0, log |-> <<>>]

\* _get_ai_reply up to the request to the model: the memory is refreshed,
\* the system message is rebuilt if it does not hold the memory, and the
\* request is sent
GetAiReplyStart(e) ==
    LET given == e.system_message \o e.persisted_letta_messages
        rebuilt == rebuild_memory(given, e.blocks, e.clock)
        updated == rebuilt.update # <<>>
    IN  [e EXCEPT !.pc = "awaiting_model",
                  !.given = given,
                  !.in_context_messages = rebuilt.in_context_messages,
                  !.db_system = IF updated THEN rebuilt.update[1] ELSE @,
                  !.rewrites = IF updated THEN @ + 1 ELSE @,
                  !.clock = IF updated THEN @ + 1 ELSE @,
                  !.log = @ \o (IF updated THEN <<"rewrite_system">> ELSE <<>>)
                            \o <<"llm_call">>]

\* (mutant) the loop goes on whatever the handler decided
EngineLoop_IgnoreDecision(e) ==
    IF e.iterations < e.max_steps
    THEN GetAiReplyStart(e)
    ELSE [e EXCEPT !.pc = "done", !.log = @ \o <<"return">>]

\* the loop header of step() and what follows it: the next iteration up to
\* its LLM call, or the translation of the messages and the return
EngineLoop(e) ==
    IF e.iterations < e.max_steps /\ (e.iterations = 0 \/ e.continue_stepping)
    THEN GetAiReplyStart(e)
    ELSE [e EXCEPT !.pc = "done", !.log = @ \o <<"return">>]

(***************************************************************************)
(* Creating an agent with tool rules (setup_agent of the tests): the rule  *)
(* set is checked against the model the agent is configured with.          *)
(***************************************************************************)
\* the model configurations of the test
Models == {"claude-3-5-sonnet", "openai-gpt-3.5-turbo", "openai-gpt-4o"}

\* the models with structured output, which can be held to one of several tools
supports_structured_output(model) == model = "openai-gpt-4o"

SecretWordTools == {"first_secret_word", "second_secret_word", "third_secret_word"}

\* the lists of InitToolRule an agent is created with
InitRuleLists == UNION {[1..n -> SecretWordTools] : n \in 0..MaxInitRules}

\* (mutant) several initial tools are resolved to the first of them
setup_agent_FirstWins(model, tool_rules) ==
    [outcome |-> "created",
     init |-> IF Len(tool_rules) > 1 /\ ~supports_structured_output(model)
              THEN {tool_rules[1]} ELSE SeqToSet(tool_rules)]

\* the outcome of creating the agent: the agent with its initial tools, or
\* the ValueError "Multiple initial tools are not supported for
\* non-structured models"
setup_agent(model, tool_rules) ==
    IF Len(tool_rules) > 1 /\ ~supports_structured_output(model)
    THEN [outcome |-> "raised", error |-> "ValueError"]
    ELSE [outcome |-> "created", init |-> SeqToSet(tool_rules)]

(***************************************************************************)
(* Actions.                                                                *)
(***************************************************************************)
Init ==
    /\ scenario \in Scenarios
    /\ \E use_assistant_message \in (IF scenario = "continue" THEN BOOLEAN ELSE {TRUE}) :
          run = [a \in Agents |-> IdleRun(a \in Workers \/ use_assistant_message)]
    /\ interface = FreshInterface(FALSE, FALSE)
    /\ stream = FreshStream
    /\ call = NoCall
    /\ engine = IdleEngine(<<"a">>, <<>>)

\* a caller invokes step(input_message, max_steps) on the top-level agent
Step ==
    /\ run["mgr"].pc = "idle"
    /\ \E max_steps \in 0..MaxSteps :
          run' = [run EXCEPT !["mgr"] =
                     [StepStart(run["mgr"].use_assistant_message, max_steps)
                         EXCEPT !.turn = run["mgr"].turn + 1]]
    /\ UNCHANGED <<scenario, interface, stream, call, engine>>

\* _get_ai_reply: the legal tools are computed and the model is asked; the
\* request can fail
GetAiReply(a) ==
    /\ run[a].pc = "awaiting_model"
    /\ LET offered == AllowedTools(a, scenario, run[a].history)
           asked == [run[a] EXCEPT !.iterations = @ + 1, !.offered = offered]
       IN  \/ \E reply \in Replies(a, scenario, offered, run[a].calls) :
                 run' = [run EXCEPT ![a] = [asked EXCEPT !.pc = "handling",
                                                         !.response = reply,
                                                         !.llm_usage = @ + reply.usage]]
           \/ run' = [run EXCEPT ![a] = [asked EXCEPT !.pc = "raised",
                                                      !.response = NoResponse,
                                                      !.error = "LLMError"]]
    /\ UNCHANGED <<scenario, interface, stream, call, engine>>

\* _handle_ai_response for every tool but a broadcast that reaches agents
HandleAiResponse(a) ==
    /\ run[a].pc = "handling"
    /\ LET r == run[a]
           tool_call == FirstToolCall(ToolCallsOf(r.response))
           tool_call_name == tool_call.tool
           broadcast == /\ tool_call_name = BroadcastTool
                        /\ tool_call_name \in ToolsOf(a, scenario)
       IN  IF ParsedArgs(tool_call.args).kind = "nonobject"
           THEN \* tool_args.pop on a value that is no dict
                run' = [run EXCEPT ![a] = [r EXCEPT !.pc = "raised", !.error = "TypeError"]]
           ELSE IF broadcast
           THEN IF tool_call.args.kind = "malformed"
                THEN \* the broadcast called without its arguments raises
                     run' = [run EXCEPT ![a] = AfterExecute(a, scenario, r,
                                [result |-> "Failed to call tool", success |-> FALSE])]
                ELSE \* no agent matches: the broadcast returns []
                     run' = [run EXCEPT ![a] = AfterExecute(a, scenario,
                                [r EXCEPT !.results = <<>>, !.targets = {}],
                                [result |-> "results", success |-> TRUE])]
           ELSE \E out \in ExecuteTool(a, scenario, tool_call_name) :
                   run' = [run EXCEPT ![a] = AfterExecute(a, scenario, r, out)]
    /\ UNCHANGED <<scenario, interface, stream, call, engine>>

\* _handle_ai_response up to asyncio.gather: the broadcast finds matching
\* agents and creates one task per agent, each running step() on its agent
StartBroadcast(a) ==
    /\ run[a].pc = "handling"
    /\ FirstToolCall(ToolCallsOf(run[a].response)).tool = BroadcastTool
    /\ BroadcastTool \in ToolsOf(a, scenario)
    /\ FirstToolCall(ToolCallsOf(run[a].response)).args.kind = "object"
    /\ \E matching_agents \in SUBSET Workers \ {{}} :
          run' = [b \in Agents |->
                    IF b = a THEN [run[a] EXCEPT !.pc = "broadcasting",
                                                 !.targets = matching_agents,
                                                 !.results = <<>>]
                    ELSE IF b \in matching_agents
                    THEN [StepStart(TRUE, DefaultMaxSteps) EXCEPT !.turn = run[b].turn + 1]
                    ELSE run[b]]
    /\ UNCHANGED <<scenario, interface, stream, call, engine>>

\* asyncio.gather returns once every task has ended; _handle_ai_response
\* goes on from the return of _execute_tool
FinishBroadcast(a) ==
    /\ run[a].pc = "broadcasting"
    /\ \A t \in run[a].targets : run[t].pc \in {"done", "raised"}
    /\ run' = [run EXCEPT ![a] = AfterExecute(a, scenario,
                    [run[a] EXCEPT !.results = Gather(run[a].targets, run)],
                    [result |-> "results", success |-> TRUE])]
    /\ UNCHANGED <<scenario, interface, stream, call, engine>>

Next ==
    \/ Step
    \/ \E a \in Agents : GetAiReply(a)
    \/ \E a \in Agents : HandleAiResponse(a)
    \/ \E a \in Agents : StartBroadcast(a)
    \/ \E a \in Agents : FinishBroadcast(a)

vars == <<scenario, run, interface, stream, call, engine>>

Spec == Init /\ [][Next]_vars

(***************************************************************************)
(* Actions of the streaming interface: process() reading one event.        *)
(***************************************************************************)
BlockKinds == {"text", "tool_use", "thinking", "redacted_thinking"}

DeltaKinds == {"text", "json", "thinking", "signature"}

\* the fragments the provider can send next: the next tokens of the argument
\* string (the first fragment can be empty), the text fragments, one
\* thinking fragment, one signature
Fragments(kind, s) ==
    CASE kind = "json" ->
            LET left == Len(s.doc) - s.sent
                lens == IF left = 0 THEN {0}
                        ELSE {n \in 0..MaxFrag : n <= left /\ (n = 0 => s.sent = 0)}
            IN  {SubSeq(s.doc, s.sent + 1, s.sent + n) : n \in lens}
      [] kind = "text" -> TextFragments
      [] kind = "thinking" -> {<<"th">>}
      [] kind = "signature" -> {<<"sig">>}

\* what the provider sends in a delta of the kind: any next fragment inside
\* a block of that kind, one fragment outside of it
Sent(kind, s, anthropic_mode) ==
    LET block == CASE kind = "text" -> "TEXT"
                   [] kind = "json" -> "TOOL_USE"
                   [] OTHER -> "THINKING"
        fragments == Fragments(kind, s)
    IN  IF anthropic_mode = block THEN fragments
        ELSE {CHOOSE f \in fragments : \A g \in fragments : Len(f) <= Len(g)}

\* process() can read another event
Readable ==
    /\ stream.error = ""
    /\ Len(stream.consumed) < MaxEvents

\* the provider's protocol: an optional message start, content blocks one
\* after the other, a message delta, a message stop.  The provider keeps to
\* it for the starts and the message events; deltas and block stops are
\* sent at any point
Seen(type) == \E k \in 1..Len(stream.consumed) : stream.consumed[k].type = type

InBody == interface.anthropic_mode = "NONE" /\ ~Seen("message_delta")

\* the stream after process() has read the event and yielded the messages
Read(event, yield) ==
    [stream EXCEPT !.consumed = Append(@, event), !.yielded = @ \o yield]

StreamInit ==
    /\ scenario = "free"
    /\ run = [a \in Agents |-> IdleRun(TRUE)]
    /\ \E use_assistant_message \in BOOLEAN, put_inner_thoughts_in_kwarg \in BOOLEAN :
          interface = FreshInterface(use_assistant_message, put_inner_thoughts_in_kwarg)
    /\ stream = FreshStream
    /\ call = NoCall
    /\ engine = IdleEngine(<<"a">>, <<>>)

ContentBlockStart ==
    \E kind \in BlockKinds :
    \E name \in (IF kind = "tool_use" THEN StreamToolNames ELSE {NoTool}) :
    \E doc \in (IF kind = "tool_use" THEN Documents(name) ELSE {stream.doc}) :
        LET result == OnBlockStart(interface, kind, name)
        IN  /\ Readable
            /\ InBody
            /\ interface' = result.self
            /\ stream' = [Read(Event("start", kind, <<name>>), result.yield)
                            EXCEPT !.doc = doc,
                                   !.sent = IF kind = "tool_use" THEN 0 ELSE @]
            /\ UNCHANGED <<scenario, run, call, engine>>

ContentBlockDelta ==
    \E kind \in DeltaKinds :
    \E data \in Sent(kind, stream, interface.anthropic_mode) :
        /\ Readable
        /\ IF IntegrityFails(kind, interface.anthropic_mode)
           THEN /\ interface' = interface
                /\ stream' = [Read(Event("delta", kind, data), <<>>)
                                EXCEPT !.error = "RuntimeError"]
           ELSE LET result ==
                      CASE kind = "text" -> OnTextDelta(interface, data)
                        [] kind = "json" -> OnInputJSONDelta(interface, data)
                        [] kind = "thinking" ->
                              [self |-> interface, yield |-> <<ReasoningMessage(data)>>]
                        [] kind = "signature" ->
                              [self |-> interface, yield |-> <<ReasoningMessage(<<>>)>>]
                IN  /\ interface' = result.self
                    /\ stream' = [Read(Event("delta", kind, data), result.yield)
                                    EXCEPT !.sent = IF kind = "json" THEN @ + Len(data)
                                                    ELSE @]
        /\ UNCHANGED <<scenario, run, call, engine>>

ContentBlockStop ==
    LET result == OnBlockStop(interface)
    IN  /\ Readable
        /\ interface' = result.self
        /\ stream' = Read(Event("stop", "", <<>>), result.yield)
        /\ UNCHANGED <<scenario, run, call, engine>>

MessageStart ==
    /\ Readable
    /\ stream.consumed = <<>>
    /\ interface' = [interface EXCEPT !.input_tokens = @ + 1,
                                      !.output_tokens = @ + 1]
    /\ stream' = Read(Event("message_start", "", <<>>), <<>>)
    /\ UNCHANGED <<scenario, run, call, engine>>

MessageDelta ==
    /\ Readable
    /\ InBody
    /\ Seen("stop")
    /\ interface' = [interface EXCEPT !.output_tokens = @ + 1]
    /\ stream' = Read(Event("message_delta", "", <<>>), <<>>)
    /\ UNCHANGED <<scenario, run, call, engine>>

MessageStop ==
    /\ Readable
    /\ stream.consumed # <<>>
    /\ Last(stream.consumed).type = "message_delta"
    /\ stream' = Read(Event("message_stop", "", <<>>), <<>>)
    /\ UNCHANGED <<scenario, run, interface, call, engine>>

StreamNext ==
    \/ ContentBlockStart
    \/ ContentBlockDelta
    \/ ContentBlockStop
    \/ MessageStart
    \/ MessageDelta
    \/ MessageStop

StreamSpec == StreamInit /\ [][StreamNext]_vars

(***************************************************************************)
(* The streaming interface on the event sequences that pass its safety     *)
(* checks: process() checks a delta against the mode and nothing else, so  *)
(* a block start is read at any point, inside an open block too, and a     *)
(* block stop in any mode.                                                 *)
(***************************************************************************)
FlowReadable ==
    /\ stream.error = ""
    /\ Len(stream.consumed) < MaxFlowEvents

FlowBlockStart ==
    \E kind \in BlockKinds :
    \E name \in (IF kind = "tool_use" THEN StreamToolNames ELSE {NoTool}) :
    \E doc \in (IF kind = "tool_use" THEN Documents(name) ELSE {stream.doc}) :
        LET result == OnBlockStart(interface, kind, name)
        IN  /\ FlowReadable
            /\ interface' = result.self
            /\ stream' = [Read(Event("start", kind, <<name>>), result.yield)
                            EXCEPT !.doc = doc,
                                   !.sent = IF kind = "tool_use" THEN 0 ELSE @]
            /\ UNCHANGED <<scenario, run, call, engine>>

FlowBlockDelta ==
    \E kind \in DeltaKinds :
    \E data \in Sent(kind, stream, interface.anthropic_mode) :
        /\ FlowReadable
        /\ ~IntegrityFails(kind, interface.anthropic_mode)
        /\ LET result ==
                  CASE kind = "text" -> OnTextDelta(interface, data)
                    [] kind = "json" -> OnInputJSONDelta(interface, data)
                    [] kind = "thinking" ->
                          [self |-> interface, yield |-> <<ReasoningMessage(data)>>]
                    [] kind = "signature" ->
                          [self |-> interface, yield |-> <<ReasoningMessage(<<>>)>>]
           IN  /\ interface' = result.self
               /\ stream' = [Read(Event("delta", kind, data), result.yield)
                               EXCEPT !.sent = IF kind = "json" THEN @ + Len(data)
                                               ELSE @]
        /\ UNCHANGED <<scenario, run, call, engine>>

FlowBlockStop ==
    LET result == OnBlockStop(interface)
    IN  /\ FlowReadable
        /\ interface' = result.self
        /\ stream' = Read(Event("stop", "", <<>>), result.yield)
        /\ UNCHANGED <<scenario, run, call, engine>>

FlowNext ==
    \/ FlowBlockStart
    \/ FlowBlockDelta
    \/ FlowBlockStop

FlowSpec == StreamInit /\ [][FlowNext]_vars

(***************************************************************************)
(* Calls of the functions that keep no state between calls.                *)
(***************************************************************************)
CallInit ==
    /\ scenario = "free"
    /\ run = [a \in Agents |-> IdleRun(TRUE)]
    /\ interface = FreshInterface(FALSE, FALSE)
    /\ stream = FreshStream
    /\ call = NoCall
    /\ engine = IdleEngine(<<"a">>, <<>>)

\* an agent is created with a model configuration and a list of InitToolRule
CreateAgent ==
    /\ \E model \in Models, tool_rules \in InitRuleLists :
          call' = [fn |-> "setup_agent", model |-> model, tool_rules |-> tool_rules,
                   result |-> setup_agent(model, tool_rules)]
    /\ UNCHANGED <<scenario, run, interface, stream, engine>>

\* a complete Anthropic message is converted
ConvertAnthropic ==
    /\ \E response \in AnthropicResponses, put_inner_thoughts_in_kwargs \in BOOLEAN :
          call' = [fn |-> "anthropic", response |-> response,
                   put_inner_thoughts_in_kwargs |-> put_inner_thoughts_in_kwargs,
                   result |-> convert_response_to_chat_completion(
                                  response, put_inner_thoughts_in_kwargs)]
    /\ UNCHANGED <<scenario, run, interface, stream, engine>>

\* a candidate of a complete Google AI response is converted
ConvertGoogle ==
    /\ \E finish_reason \in GoogleFinishReasons, part \in GoogleParts,
          put_inner_thoughts_in_kwargs \in BOOLEAN :
          call' = [fn |-> "google", finish_reason |-> finish_reason, part |-> part,
                   put_inner_thoughts_in_kwargs |-> put_inner_thoughts_in_kwargs,
                   result |-> convert_google_candidate(
                                  finish_reason, part, put_inner_thoughts_in_kwargs)]
    /\ UNCHANGED <<scenario, run, interface, stream, engine>>

\* the handler takes request_heartbeat out of the arguments of a tool call
PopRequestHeartbeat ==
    /\ \E tool_args \in ToolArgs :
          call' = [fn |-> "request_heartbeat", tool_args |-> tool_args,
                   result |-> pop_request_heartbeat(tool_args)]
    /\ UNCHANGED <<scenario, run, interface, stream, engine>>

\* the reasoning content of a stream is reconstructed from the messages
\* recorded while it was read
GetReasoningContent ==
    /\ \E reasoning_messages \in ReasoningLists :
          call' = [fn |-> "reasoning_content", reasoning_messages |-> reasoning_messages,
                   result |-> get_reasoning_content(reasoning_messages)]
    /\ UNCHANGED <<scenario, run, interface, stream, engine>>

\* the step() of an agent executes the broadcast tool: the targets are looked
\* up by their tags
FindBroadcastTargets ==
    /\ \E sender \in Agents, match_all \in SUBSET Tags, match_some \in SUBSET Tags :
          call' = [fn |-> "broadcast_targets", sender |-> sender,
                   match_all |-> match_all, match_some |-> match_some,
                   result |-> BroadcastTargets(sender, match_all, match_some)]
    /\ UNCHANGED <<scenario, run, interface, stream, engine>>

\* a streamed completion is read with a stream interface
ProcessStream ==
    /\ \E chunks \in ChunkLists, stream_interface \in StreamInterfaces :
          call' = [fn |-> "process_stream", chunks |-> chunks,
                   stream_interface |-> stream_interface,
                   result |-> anthropic_chat_completions_process_stream(
                                  chunks, stream_interface)]
    /\ UNCHANGED <<scenario, run, interface, stream, engine>>

CallNext ==
    \/ CreateAgent
    \/ PopRequestHeartbeat
    \/ GetReasoningContent
    \/ FindBroadcastTargets
    \/ ProcessStream
    \/ ConvertAnthropic
    \/ ConvertGoogle

CallSpec == CallInit /\ [][CallNext]_vars

(***************************************************************************)
(* Actions of the turn: step() runs from one await to the next.            *)
(***************************************************************************)
TurnInit ==
    /\ scenario = "free"
    /\ run = [a \in Agents |-> IdleRun(TRUE)]
    /\ interface = FreshInterface(FALSE, FALSE)
    /\ stream = FreshStream
    /\ call = NoCall
    /\ \E blocks \in Memories, compiled \in Memories :
          engine = IdleEngine(blocks, compile_system_message(compiled, 0))

\* step() is called: the system message is read, the inbound message is
\* persisted, a solver is made, and the loop is entered
TurnStep ==
    /\ engine.pc = "idle"
    /\ \E max_steps \in 0..MaxTurnSteps :
          engine' = EngineLoop([engine EXCEPT
                        !.max_steps = max_steps,
                        !.system_message = <<SystemMessage(engine.db_system)>>,
                        !.persisted_letta_messages = <<[role |-> "user", name |-> "input"]>>,
                        !.log = <<"persist_input">>])
    /\ UNCHANGED <<scenario, run, interface, stream, call>>

\* the model replies, or the request fails; _handle_ai_response parses the
\* reply and starts the tool
TurnModelReplies ==
    /\ engine.pc = "awaiting_model"
    /\ \/ \E hb \in {[t |-> "absent"], [t |-> "bool", b |-> TRUE]} :
             engine' = [engine EXCEPT
                          !.pc = "executing",
                          !.response = [tool |-> "echo", args |-> [kind |-> "object", hb |-> hb],
                                        usage |-> 1, more |-> <<>>],
                          !.log = @ \o <<"llm_reply", "execute_tool">>]
       \/ engine' = [engine EXCEPT !.pc = "raised", !.log = @ \o <<"llm_error">>]
    /\ UNCHANGED <<scenario, run, interface, stream, call>>

\* the memory blocks of the agent are edited while step() waits for the
\* model or for the tool
TurnMemoryEdited ==
    /\ engine.pc \in {"awaiting_model", "executing"}
    /\ engine.edits < MaxEdits
    /\ \E blocks \in Memories \ {engine.blocks} :
          engine' = [engine EXCEPT !.blocks = blocks, !.edits = @ + 1]
    /\ UNCHANGED <<scenario, run, interface, stream, call>>

\* the tool returns: the call is registered, continue_stepping is resolved,
\* the messages are persisted, and the loop goes on (continue) or is left
\* (finish) on the value the handler returned
TurnToolReturns ==
    /\ engine.pc = "executing"
    /\ \E out \in ExecuteTool(EngineAgent, EngineScenario, engine.response.tool) :
          LET rules == ToolRulesOf(EngineAgent, EngineScenario)
              tool_call == FirstToolCall(ToolCallsOf(engine.response))
              history == register_tool_call(engine.history, tool_call.tool)
              continue_stepping ==
                  ContinueStepping(rules, history, tool_call.tool,
                                   CoerceHeartbeat(ParsedArgs(tool_call.args).hb))
              handled == [engine EXCEPT
                  !.history = history,
                  !.continue_stepping = continue_stepping,
                  !.persisted_letta_messages =
                      @ \o ToolCallMessages(tool_call.tool, "given", out.success,
                                            continue_stepping),
                  !.iterations = @ + 1,
                  !.log = @ \o <<"tool_returned", "register", "resolve_continue", "persist",
                                  IF continue_stepping THEN "continue" ELSE "finish">>]
          IN  engine' = EngineLoop(handled)
    /\ UNCHANGED <<scenario, run, interface, stream, call>>

TurnNext ==
    \/ TurnStep
    \/ TurnModelReplies
    \/ TurnMemoryEdited
    \/ TurnToolReturns

TurnSpec == TurnInit /\ [][TurnNext]_vars

(***************************************************************************)
(*                     Properties of the step loop                         *)
(***************************************************************************)
ToolNames(calls) == [k \in 1..Len(calls) |-> calls[k].tool]

IsPrefix(s, t) == Len(s) <= Len(t) /\ \A k \in 1..Len(s) : s[k] = t[k]

\* the last reply of the run has been handled to the end of its iteration
Handled(r) ==
    /\ r.response # NoResponse
    /\ \/ r.pc \in {"awaiting_model", "done"}
       \/ r.pc = "raised" /\ r.error = "ValueError"

\* the loop of step() has ended: step() has returned, or raised translating
LoopEnded(r) == r.pc = "done" \/ (r.pc = "raised" /\ r.error = "ValueError")

\* request_heartbeat of the last reply, coerced
Heartbeat(r) == CoerceHeartbeat(ParsedArgs(r.response.args).hb)

\* the last tool-result message persisted
LastToolResult(persisted) ==
    LET ks == {k \in 1..Len(persisted) : persisted[k].role = "tool"}
    IN  persisted[CHOOSE k \in ks : \A j \in ks : j <= k]

C1_Case(r) ==
    /\ scenario = "chain"
    /\ r.max_steps >= 3
    /\ \A k \in 1..Len(r.calls) : r.calls[k].offered /\ r.calls[k].output = "ok"

\* C1: with rules Init(A), Child(A,[B]), Child(B,[C]), Terminal(C), tools
\* that return "ok", a model that calls only offered tools and max_steps >= 3,
\* step() executes A, then B, then C and stops after C with
\* continue_stepping = false, whatever request_heartbeat the calls carry.
C1_ChainRunsInOrder ==
    LET r == run["mgr"]
    IN  C1_Case(r) =>
          /\ IsPrefix(ToolNames(r.calls), <<"A", "B", "C">>)
          /\ r.pc = "done" => ToolNames(r.calls) = <<"A", "B", "C">>
          /\ Len(r.calls) = 3 => r.pc = "done" /\ ~r.continue_stepping

\* the chain has run to its end, the call to C having asked for a heartbeat
C1_Witness ==
    LET r == run["mgr"]
    IN  /\ C1_Case(r)
        /\ r.pc = "done"
        /\ ToolNames(r.calls) = <<"A", "B", "C">>
        /\ r.response.tool = "C"
        /\ r.response.args = [kind |-> "object", hb |-> [t |-> "bool", b |-> TRUE]]
        /\ ~r.continue_stepping

\* C2: step() runs at most max_steps iterations, each with at most one tool
\* execution, and then ends; no iteration runs after an iteration whose
\* continue_stepping was false.
C2_LoopBounded ==
    \A a \in Agents :
        LET r == run[a]
        IN  /\ r.iterations <= r.max_steps
            /\ Len(r.calls) <= r.iterations
            /\ r.pc = "awaiting_model" => r.iterations < r.max_steps
            /\ (r.pc = "awaiting_model" /\ r.iterations >= 1) => r.continue_stepping
            /\ (r.pc \in {"handling", "broadcasting"} /\ r.iterations >= 2)
                   => r.continue_stepping

\* the budget ended the loop: max_steps iterations ran, the last one asking
\* to continue
C2_Witness ==
    LET r == run["mgr"]
    IN  /\ r.pc = "done"
        /\ r.max_steps >= 2
        /\ r.iterations = r.max_steps
        /\ Len(r.calls) = r.max_steps
        /\ r.continue_stepping

\* C3: a call to a terminal tool made before every RequiredBeforeExit tool
\* was called in the turn does not make must_stop() true and does not end
\* the loop through the terminal rule; once they were all called, a call to
\* the terminal tool makes must_stop() true and ends the loop.
C3_TerminalGating ==
    \A a \in Agents :
        LET r == run[a]
            rules == ToolRulesOf(a, scenario)
        IN  (Handled(r) /\ r.response.tool \in rules.terminal) =>
               IF rules.required \subseteq SeqToSet(ToolNames(r.calls))
               THEN must_stop(rules, r.history) /\ LoopEnded(r) /\ ~r.continue_stepping
               ELSE /\ ~must_stop(rules, r.history)
                    /\ r.continue_stepping =
                          \/ r.response.tool \in DOMAIN rules.child \cup rules.cont
                          \/ Heartbeat(r)

\* T was called before R and the loop went on; after R, T ended it
C3_Witness ==
    LET r == run["mgr"]
    IN  /\ scenario = "gate"
        /\ ToolNames(r.calls) = <<"T", "R", "T">>
        /\ r.pc = "done"
        /\ ~r.continue_stepping

\* C4: after each tool call, continue_stepping is false when the solver says
\* the turn must stop on that tool; otherwise true when the tool has declared
\* children or a ContinueTool rule; otherwise the coerced request_heartbeat.
C4_ContinueStepping ==
    \A a \in Agents :
        LET r == run[a]
            rules == ToolRulesOf(a, scenario)
            tool == r.response.tool
        IN  Handled(r) =>
               r.continue_stepping =
                  CASE must_stop(rules, r.history) -> FALSE
                    [] ~must_stop(rules, r.history)
                         /\ (tool \in DOMAIN rules.child \cup DOMAIN rules.cond \cup rules.cont)
                       -> TRUE
                    [] OTHER -> Heartbeat(r)

\* a ContinueTool call that did not ask for a heartbeat kept the loop going
C4_Witness ==
    LET r == run["mgr"]
    IN  /\ scenario = "continue"
        /\ Handled(r)
        /\ r.response.tool = DEFAULT_MESSAGE_TOOL
        /\ r.response.args = [kind |-> "object", hb |-> [t |-> "absent"]]
        /\ r.continue_stepping

\* C5: after a call to a tool with ConditionalTool(T, default_child=D,
\* mapping=M), the only tool offered next is M[output] when the call's output
\* is a key of M, and D otherwise.
C5_ConditionalForcing ==
    \A a \in Agents :
        LET r == run[a]
            rules == ToolRulesOf(a, scenario)
        IN  (r.pc = "handling" /\ r.calls # <<>> /\ Last(r.calls).tool \in DOMAIN rules.cond) =>
               LET rule == rules.cond[Last(r.calls).tool]
                   output == Last(r.calls).output
               IN  r.offered = {IF output \in DOMAIN rule.mapping
                                THEN rule.mapping[output] ELSE rule.default_child}

\* C9: when the tool call's argument string is not valid JSON, step() does
\* not abort; the turn persists a tool-result message with success = false
\* for that call, and continue_stepping is computed by the normal rule (with
\* the empty argument map, so without a heartbeat request).
C9_MalformedContained ==
    \A a \in Agents :
        LET r == run[a]
            rules == ToolRulesOf(a, scenario)
            tool == r.response.tool
        IN  (r.response # NoResponse /\ r.response.args.kind = "malformed"
             /\ r.pc \notin {"handling", "broadcasting"}) =>
               /\ r.pc # "raised"
               /\ ~LastToolResult(r.persisted).success
               /\ r.continue_stepping =
                     CASE must_stop(rules, r.history) -> FALSE
                       [] OTHER -> tool \in DOMAIN rules.child \cup DOMAIN rules.cond
                                            \cup rules.cont

(***************************************************************************)
(*                     Properties of the broadcast                         *)
(***************************************************************************)
\* the state part of C10: every matching agent has a step() launched on it,
\* and once the broadcast has returned there is exactly one result per
\* matching agent, each telling how its own agent's step() ended
BroadcastResults ==
    \A a \in Agents :
        LET r == run[a]
        IN  /\ r.pc = "broadcasting" => \A t \in r.targets : run[t].pc # "idle"
            /\ (r.targets # {} /\ r.pc # "broadcasting") =>
                  /\ Len(r.results) = Cardinality(r.targets)
                  /\ {r.results[k].agent_id : k \in 1..Len(r.results)} = r.targets
                  /\ \A k \in 1..Len(r.results) :
                        LET w == run[r.results[k].agent_id]
                        IN  /\ w.pc \in {"done", "raised"}
                            /\ w.pc = "raised" =>
                                  /\ r.results[k].kind = "error"
                                  /\ r.results[k].error = w.error
                            /\ w.pc = "done" =>
                                  /\ r.results[k].kind = "response"
                                  /\ r.results[k].response = SendMessageContent(w)

\* the step part of C10: the step in which one target's step() raises leaves
\* every other invocation as it was
RaiseIsLocal ==
    \A t \in Workers :
        (run[t].pc # "raised" /\ run'[t].pc = "raised") =>
            \A u \in Agents \ {t} : run'[u] = run[u]

\* C10: a broadcast launches one step() per matching agent and returns
\* exactly one result per matching agent; an exception raised in one target's
\* step() is captured into that target's own result, and neither prevents
\* another target's step() from running to completion nor changes another
\* target's result or call history.
C10_BroadcastIsolation == []BroadcastResults /\ [][RaiseIsLocal]_vars

\* a broadcast to both workers has returned: the step() on w1 raised and is
\* reported as an error, the step() on w2 ran to its end and is reported
C10_Witness ==
    LET r == run["mgr"]
    IN  /\ r.targets = {"w1", "w2"}
        /\ r.pc \notin {"broadcasting", "handling"}
        /\ Len(r.results) = 2
        /\ r.results[1] = [agent_id |-> "w1", kind |-> "error", error |-> "LLMError"]
        /\ r.results[2] = [agent_id |-> "w2", kind |-> "response",
                           response |-> <<"message">>]
        /\ run["w2"].pc = "done"
        /\ Len(run["w2"].history) = 1

(***************************************************************************)
(*                 Properties of the streaming interface                   *)
(***************************************************************************)
ToolCallEvents(yielded) == SelectSeq(yielded, LAMBDA m : m.type = "tool_call")

IsJSONDelta(e) == e.type = "delta" /\ e.kind = "json"

\* the positions of the stream at which a tool-use block was opened
ToolStarts ==
    {k \in 1..Len(stream.consumed) :
        stream.consumed[k].type = "start" /\ stream.consumed[k].kind = "tool_use"}

\* raw tool-call deltas are enabled, the inner thoughts travel in the
\* arguments, and the stream read so far ends with its first tool-use block:
\* the start of the block, JSON fragments, and possibly the stop of the block
C6_Case ==
    /\ ~interface.use_assistant_message
    /\ interface.put_inner_thoughts_in_kwarg
    /\ stream.error = ""
    /\ Cardinality(ToolStarts) = 1
    /\ LET i == CHOOSE k \in ToolStarts : TRUE
           n == Len(stream.consumed)
       IN  \A k \in (i + 1)..n :
               \/ IsJSONDelta(stream.consumed[k])
               \/ k = n /\ stream.consumed[k].type = "stop"

\* the JSON fragments of that block, in their order of arrival
C6_Fragments ==
    LET i == CHOOSE k \in ToolStarts : TRUE
    IN  SelectSeq(SubSeq(stream.consumed, i + 1, Len(stream.consumed)), IsJSONDelta)

C6_Stopped == Last(stream.consumed).type = "stop"

\* the inner thoughts are complete in the first j fragments taken together:
\* the inner-thoughts key is there and a further key has appeared
C6_CompleteAt(j) ==
    LET parsed == optimistic_json_parser_parse(
                      Flatten([k \in 1..j |-> C6_Fragments[k].data]))
    IN  INNER_THOUGHTS_KWARG \in DOMAIN parsed /\ Cardinality(DOMAIN parsed) > 1

\* the announcement of the call followed by one delta per fragment
C6_Announced ==
    LET i == CHOOSE k \in ToolStarts : TRUE
    IN  <<ToolCallMessage(stream.consumed[i].data[1], <<>>)>>
        \o [k \in 1..Len(C6_Fragments) |-> ToolCallMessage(NoTool, C6_Fragments[k].data)]

\* C6: with raw tool-call deltas enabled and the inner thoughts carried in
\* the arguments, while the fragments f1..fk of a tool-use block read so far
\* do not complete the inner thoughts no tool-call event has been emitted;
\* once the fragment fn that completes them has been consumed (or the block
\* has stopped), the events emitted are the announcement and the argument
\* deltas of the fragments read, each exactly once, in their order of arrival.
C6_AccumulatorOrdering ==
    C6_Case =>
        IF C6_Stopped \/ \E j \in 1..Len(C6_Fragments) : C6_CompleteAt(j)
        THEN ToolCallEvents(stream.yielded) = C6_Announced
        ELSE ToolCallEvents(stream.yielded) = <<>>

\* completeness is first reached at the third fragment, which has just
\* been consumed: the announcement and the three deltas have been emitted
C6_Witness ==
    /\ C6_Case
    /\ ~C6_Stopped
    /\ Len(C6_Fragments) = 3
    /\ C6_CompleteAt(3)
    /\ ~C6_CompleteAt(2)
    /\ Len(ToolCallEvents(stream.yielded)) = 4
    /\ interface.tool_call_buffer = <<>>

\* the delta is of a kind that does not belong to the open block
Mismatched(kind, anthropic_mode) ==
    \/ kind = "text" /\ anthropic_mode # "TEXT"
    \/ kind = "json" /\ anthropic_mode # "TOOL_USE"
    \/ kind \in {"thinking", "signature"} /\ anthropic_mode # "THINKING"

DeltaIntegrity ==
    (/\ Len(stream'.consumed) = Len(stream.consumed) + 1
     /\ Last(stream'.consumed).type = "delta"
     /\ Mismatched(Last(stream'.consumed).kind, interface.anthropic_mode))
    => /\ stream'.error = "RuntimeError"
       /\ stream'.yielded = stream.yielded
       /\ interface' = interface

\* C7: in every state of the interface, reading a delta whose kind does not
\* match the current mode (a text delta outside TEXT, a JSON delta outside
\* TOOL_USE, a thinking or signature delta outside THINKING) raises an
\* error, yields no message and leaves everything accumulated as it was.
C7_DeltaIntegrity == [][DeltaIntegrity]_vars

\* a JSON delta arrived inside a text block that had already yielded
\* reasoning, and process() raised
C7_Witness ==
    /\ stream.error = "RuntimeError"
    /\ IsJSONDelta(Last(stream.consumed))
    /\ interface.anthropic_mode = "TEXT"
    /\ interface.accumulated_tool_call_args = <<>>
    /\ Len(stream.yielded) = 1

StopIntegrity ==
    (/\ Len(stream'.consumed) = Len(stream.consumed) + 1
     /\ Last(stream'.consumed).type = "stop"
     /\ interface.anthropic_mode = "NONE")
    => stream'.error # ""

\* C8: reading a content block stop while no block is open (mode NONE)
\* raises a protocol-integrity error.
C8_StopIntegrity == [][StopIntegrity]_vars

(***************************************************************************)
(*                  Further properties of the broadcast                    *)
(***************************************************************************)
\* the target step() calls of a's broadcast that have started and not ended
InFlight(a) ==
    IF run[a].pc = "broadcasting"
    THEN Cardinality({t \in run[a].targets : run[t].pc \notin {"idle", "done", "raised"}})
    ELSE 0

\* C11: at every moment during a broadcast the number of target step()
\* calls in flight is at most a concurrency limit that does not grow with
\* the number of matching agents: some limit below the number of agents that
\* can match bounds the calls in flight.
C11_BoundedFanOut ==
    \E limit \in 1..(Cardinality(Workers) - 1) :
        \A a \in Agents : InFlight(a) <= limit

(***************************************************************************)
(*                  Properties of the tool execution                       *)
(***************************************************************************)
\* the result texts that report a failure: the tool is not attached, the
\* execution raised, or the tool itself failed
ErrorTexts == {"Tool not found", "Failed to call tool", "error"}

\* C12: _execute_tool returns a (result_text, success_flag) pair for every
\* call, and every failure, the tool's own included, comes back as an error
\* text with success_flag = false.
C12_ExecuteToolTotal ==
    \A a \in Agents :
        \A k \in 1..Len(run[a].calls) :
            /\ run[a].calls[k].success \in BOOLEAN
            /\ run[a].calls[k].output \in ErrorTexts => ~run[a].calls[k].success

OverCount(a) ==
    LET rules == ToolRulesOf(a, scenario)
    IN  {t \in DOMAIN rules.max_count : CallCount(run[a].history, t) > rules.max_count[t]}

\* the call that went over its bound ended the turn with a RuleViolation:
\* it is the last call registered, and no iteration was run after it
MaxCountFatal ==
    \A a \in Agents :
        LET r == run[a]
            rules == ToolRulesOf(a, scenario)
        IN  /\ OverCount(a) # {} <=> (r.pc = "raised" /\ r.error = "RuleViolation")
            /\ \A t \in OverCount(a) :
                  /\ CallCount(r.history, t) = rules.max_count[t] + 1
                  /\ Last(r.history).tool = t
                  /\ r.response.tool = t
                  /\ r.iterations = Len(r.calls)

\* a step() that has raised RuleViolation does nothing more
RaisedIsFinal ==
    \A a \in Agents :
        (run[a].pc = "raised" /\ run[a].error = "RuleViolation") => run'[a] = run[a]

\* C14: when registering a call makes a tool's count in the turn exceed its
\* MaxCountPerStep bound, RuleViolation is raised and step() propagates it:
\* the call is the last one of the turn, and no model request or tool
\* execution follows it.
C14_MaxCountFatal == []MaxCountFatal /\ [][RaisedIsFinal]_vars

\* R, bounded to two calls a turn, has been called a third time
C14_Witness ==
    LET r == run["mgr"]
    IN  /\ scenario = "gate"
        /\ r.pc = "raised"
        /\ r.error = "RuleViolation"
        /\ ToolNames(r.calls) = <<"R", "R", "R">>
        /\ r.iterations = 3
        /\ r.max_steps > 3

\* C15: for a rule set with exactly one InitTool rule, the solver's legal
\* tools on an empty history are that tool's name intersected with the
\* available tools, whatever tools are available, and the tools offered to
\* the model in the first iteration of step() are that tool intersected
\* with the tools _get_ai_reply makes available.
C15_InitLegality ==
    \A a \in Agents :
        LET r == run[a]
            rules == ToolRulesOf(a, scenario)
        IN  Cardinality(rules.init) = 1 =>
               /\ \A all_available \in SUBSET ToolsOf(a, scenario) :
                     legal_tools(rules, <<>>, all_available) = rules.init \cap all_available
               /\ (r.iterations = 1 /\ r.pc # "idle") =>
                     r.offered = rules.init \cap AvailableTools(a, scenario)

\* the first request of a turn under Init(A) has been answered: A alone
\* was offered, out of A, B and C
C15_Witness ==
    LET r == run["mgr"]
    IN  /\ scenario = "chain"
        /\ r.iterations = 1
        /\ r.pc = "handling"
        /\ r.history = <<>>
        /\ r.offered = {"A"}
        /\ AvailableTools("mgr", scenario) = {"A", "B", "C"}

\* the tools that a ParentLastTool rule makes eligible after the tool
EligibleAfter(rules, tool) ==
    {t \in DOMAIN rules.parent_last : rules.parent_last[t] = tool}

C18_Fragments == SelectSeq(stream.consumed, IsJSONDelta)

\* the first n fragments written one after the other
RECURSIVE C18_Joined(_)
C18_Joined(n) ==
    IF n = 0 THEN <<>> ELSE C18_Joined(n - 1) \o C18_Fragments[n].data

\* C18: whatever JSON fragments the accumulator was fed as the deltas of a
\* tool-use block, the argument string of the tool call that
\* get_tool_call_object returns is the fragments written one after the other
\* in their order of arrival, and parsing that string directly gives the
\* value of the accumulator's last incremental parse.
C18_IdempotentReparse ==
    (stream.error = "" /\ ToolStarts # {}) =>
        LET whole == C18_Joined(Len(C18_Fragments))
        IN  /\ get_tool_call_object(interface).arguments = whole
            /\ optimistic_json_parser_parse(whole) = interface.previous_parse

\* a tool-use block was sent in three non-empty fragments and has stopped:
\* the argument string of the tool call is the whole document
C18_Witness ==
    /\ stream.error = ""
    /\ Cardinality(ToolStarts) = 1
    /\ Len(C18_Fragments) = 3
    /\ \A k \in 1..3 : C18_Fragments[k].data # <<>>
    /\ Last(stream.consumed).type = "stop"
    /\ get_tool_call_object(interface).arguments = stream.doc
    /\ INNER_THOUGHTS_KWARG \in DOMAIN interface.previous_parse

\* the stream carried one tool-use block, the whole argument document of the
\* call was sent in it, and the block has stopped
C19_Case ==
    /\ stream.error = ""
    /\ Cardinality(ToolStarts) = 1
    /\ stream.sent = Len(stream.doc)
    /\ Last(stream.consumed).type = "stop"

\* the same model output as one complete response: a message that ended in
\* the tool use, with the argument object of the document as its input
C19_Response ==
    [stop_reason |-> "tool_use",
     content |-> <<[type |-> "tool_use", name |-> interface.tool_call_name,
                    input |-> optimistic_json_parser_parse(stream.doc)]>>]

C19_Converted ==
    convert_response_to_chat_completion(C19_Response, interface.put_inner_thoughts_in_kwarg)

\* C19: for the same model output, the tool call accumulated from the stream
\* events (name and argument string, the inner thoughts separated from the
\* arguments) is the tool call converted from the one complete response.
C19_StreamedEquivalence ==
    C19_Case =>
        /\ C19_Converted.outcome = "returned"
        /\ get_tool_call_object(interface) = C19_Converted.value.tool_calls[1]

\* the same, for the configurations that leave the inner thoughts out of the
\* arguments
C19_EquivalenceWithoutKwarg ==
    (C19_Case /\ ~interface.put_inner_thoughts_in_kwarg) =>
        /\ C19_Converted.outcome = "returned"
        /\ get_tool_call_object(interface) = C19_Converted.value.tool_calls[1]

(***************************************************************************)
(*                  Properties of the agent's creation                     *)
(***************************************************************************)
\* C17: a rule set with more than one InitTool rule is accepted only for a
\* model with structured output; for any other model the creation raises the
\* configuration error, and no agent is created with one of the tools
\* picked; a rule set with one InitTool rule is accepted for every model,
\* with that tool as its initial tool.
C17_MultipleInitTools ==
    call.fn = "setup_agent" =>
        LET n == Len(call.tool_rules)
            structured == call.model = "openai-gpt-4o"
        IN  /\ (n > 1 /\ ~structured) =>
                  call.result = [outcome |-> "raised", error |-> "ValueError"]
            /\ (n > 1 /\ structured) =>
                  /\ call.result.outcome = "created"
                  /\ call.result.init = {call.tool_rules[k] : k \in 1..n}
            /\ n = 1 =>
                  /\ call.result.outcome = "created"
                  /\ call.result.init = {call.tool_rules[1]}

\* two initial tools were given to a model without structured output, and
\* the creation raised
C17_Witness ==
    /\ call.fn = "setup_agent"
    /\ call.model = "claude-3-5-sonnet"
    /\ call.tool_rules = <<"first_secret_word", "second_secret_word">>
    /\ call.result.outcome = "raised"

(***************************************************************************)
(*              Properties of the response normalizers                     *)
(***************************************************************************)
\* a normalizer was given a complete response and accepted it
C20_Accepted ==
    /\ call.fn \in {"anthropic", "google"}
    /\ call.result.outcome = "returned"

\* the response ended in a tool use
C20_EndedInToolUse ==
    \/ call.fn = "anthropic" /\ call.response.stop_reason = "tool_use"
    \/ call.fn = "google" /\ call.finish_reason = "STOP" /\ call.part.function_call

C21_Case ==
    /\ call.fn \in {"anthropic", "google"}
    /\ call.put_inner_thoughts_in_kwargs
    /\ call.result.outcome = "returned"
    /\ call.result.value.tool_calls # <<>>
    /\ IF call.fn = "google" THEN INNER_THOUGHTS_KWARG \in DOMAIN call.part.args
       ELSE INNER_THOUGHTS_KWARG \in DOMAIN Last(call.response.content).input

\* the argument object the provider sent with the tool call
C21_Input ==
    IF call.fn = "google" THEN call.part.args ELSE Last(call.response.content).input

C22_MessagesTranslated ==
    \A a \in Agents :
        run[a].returned # <<>> =>
            LET messages == run[a].returned[1].messages
                persisted == run[a].persisted
            IN  /\ Len(messages) = Len(persisted)
                /\ \A k \in 1..Len(persisted) :
                      <<messages[k]>> = to_letta_message(persisted[k],
                                                         run[a].use_assistant_message)

\* C22: the response returned by step() contains the caller-facing
\* translation of every message persisted in the turn, in persistence order,
\* and usage totals equal to the sum of the usage reported by the LLM calls
\* made in the turn.
C22_ResponseAndUsage ==
    /\ C22_MessagesTranslated
    /\ \A a \in Agents :
          run[a].returned # <<>> => run[a].returned[1].usage = run[a].llm_usage

(***************************************************************************)
(*              Further properties of the step loop                        *)
(***************************************************************************)
\* C23: in every iteration the tool that is executed and registered with
\* the solver is a member of the legal tool set computed for that
\* iteration: a call of a tool attached to the agent is executed only if the
\* tool was offered.
C23_ExecutedIsLegal ==
    \A a \in Agents :
        /\ \A k \in 1..Len(run[a].calls) :
              run[a].calls[k].tool \in ToolsOf(a, scenario) => run[a].calls[k].offered
        /\ Len(run[a].history) = Len(run[a].calls)

\* the messages of the role among the messages
OfRole(messages, role) == SelectSeq(messages, LAMBDA m : m.role = role)

\* what one pass of _handle_ai_response over a response of several tool
\* calls changes for agent a: at most one call is executed and at most one
\* is registered, each the first of the response; and when the iteration is
\* handled to its end, exactly one call is executed and registered and the
\* messages persisted are the tool-call message and the tool-result message
\* of the first call, and the heartbeat notice if the loop continues
OneToolCallHandled(a) ==
    LET r == run[a]
        after == run'[a]
        first == r.response.tool
        calls == SubSeq(after.calls, Len(r.calls) + 1, Len(after.calls))
        history == SubSeq(after.history, Len(r.history) + 1, Len(after.history))
        persisted == SubSeq(after.persisted, Len(r.persisted) + 1, Len(after.persisted))
    IN  (r.pc = "handling" /\ after.pc # "handling" /\ r.response.more # <<>>) =>
            /\ IsPrefix(r.calls, after.calls)
            /\ IsPrefix(r.history, after.history)
            /\ IsPrefix(r.persisted, after.persisted)
            /\ Len(calls) <= 1 /\ Len(history) = Len(calls)
            /\ \A k \in 1..Len(calls) : calls[k].tool = first /\ history[k].tool = first
            /\ Len(OfRole(persisted, "assistant")) <= 1
            /\ Len(OfRole(persisted, "tool")) <= 1
            /\ after.pc \in {"awaiting_model", "done"} =>
                  /\ Len(calls) = 1
                  /\ [k \in 1..2 |-> [role |-> persisted[k].role, name |-> persisted[k].name]]
                        = <<[role |-> "assistant", name |-> first],
                            [role |-> "tool", name |-> first]>>
                  /\ Len(persisted) = IF after.continue_stepping THEN 3 ELSE 2

CompletesIteration(a) ==
    /\ run[a].pc \in {"handling", "broadcasting"}
    /\ \/ run'[a].pc \in {"awaiting_model", "done"}
       \/ run'[a].pc = "raised" /\ run'[a].error = "ValueError"

IsHeartbeatNotice(m) == m.role = "user" /\ m.name = "heartbeat"

\* in the iteration that a pass of the handler completes, the tool-call
\* message and the tool-result message of the call are persisted, followed
\* by the heartbeat notice if and only if continue_stepping is true
IterationPersisted(a) ==
    LET r == run[a]
        after == run'[a]
        n == Len(after.persisted) - Len(r.persisted)
        persisted == SubSeq(after.persisted, Len(r.persisted) + 1, Len(after.persisted))
    IN  CompletesIteration(a) =>
            /\ IsPrefix(r.persisted, after.persisted)
            /\ n >= 2
            /\ persisted[1].role = "assistant" /\ persisted[1].name = Last(after.calls).tool
            /\ persisted[2].role = "tool" /\ persisted[2].name = Last(after.calls).tool
            /\ n = 3 <=> after.continue_stepping
            /\ n = 2 \/ (n = 3 /\ IsHeartbeatNotice(persisted[3]))
            /\ ~IsHeartbeatNotice(persisted[1]) /\ ~IsHeartbeatNotice(persisted[2])

\* C26: in each iteration the tool-call message and the tool-result message
\* are both persisted, and a heartbeat notice is persisted in that iteration
\* if and only if continue_stepping is true for it.
C26_HeartbeatIffContinue == [][\A a \in Agents : IterationPersisted(a)]_vars

\* two iterations were completed: the first continued and persisted the
\* notice, the second did not continue and persisted none
C26_Witness ==
    /\ run["mgr"].pc = "done"
    /\ Len(run["mgr"].calls) = 2
    /\ ~run["mgr"].continue_stepping
    /\ Len(run["mgr"].persisted) = 6
    /\ IsHeartbeatNotice(run["mgr"].persisted[4])
    /\ ~IsHeartbeatNotice(run["mgr"].persisted[6])

(***************************************************************************)
(*                  Properties of request_heartbeat                        *)
(***************************************************************************)
\* the spellings of "true" in upper and lower case letters
C29_TrueSpellings ==
    {s \in [1..4 -> {"t", "T", "r", "R", "u", "U", "e", "E"}] :
        /\ s[1] \in {"t", "T"} /\ s[2] \in {"r", "R"}
        /\ s[3] \in {"u", "U"} /\ s[4] \in {"e", "E"}}

\* C29: request_heartbeat is removed from the arguments passed to the tool
\* and is coerced to a boolean for every value: a boolean is kept, a string
\* is true exactly when it equals "true" ignoring case, any other value is
\* taken by its truthiness, and a missing key gives false; no value makes
\* the handler fail, and the other arguments are not touched.
C29_RequestHeartbeat ==
    call.fn = "request_heartbeat" =>
        LET given == call.tool_args
            present == "request_heartbeat" \in DOMAIN given
            v == given["request_heartbeat"]
        IN  /\ call.result.outcome = "returned"
            /\ call.result.value.request_heartbeat \in BOOLEAN
            /\ call.result.value.request_heartbeat =
                  (/\ present
                   /\ CASE v.t = "bool" -> v.b
                        [] v.t = "str" -> v.s \in C29_TrueSpellings
                        [] OTHER -> v.n # 0)
            /\ DOMAIN call.result.value.tool_args = DOMAIN given \ {"request_heartbeat"}
            /\ \A k \in DOMAIN call.result.value.tool_args :
                  call.result.value.tool_args[k] = given[k]

\* the arguments carried request_heartbeat = "TRUE" and a message: the
\* heartbeat is true and the message alone is left for the tool
C29_Witness ==
    /\ call.fn = "request_heartbeat"
    /\ DOMAIN call.tool_args = {"request_heartbeat", DEFAULT_MESSAGE_TOOL_KWARG}
    /\ call.tool_args["request_heartbeat"] = [t |-> "str", s |-> <<"T", "R", "U", "E">>]
    /\ call.result.value.request_heartbeat
    /\ DOMAIN call.result.value.tool_args = {DEFAULT_MESSAGE_TOOL_KWARG}

(***************************************************************************)
(*              Properties of the solver of a step()                       *)
(***************************************************************************)
\* the history of the solver of the step() on agent a holds the calls
\* executed in that step(), and nothing else
OwnHistory(a) ==
    [k \in 1..Len(run[a].history) |-> run[a].history[k].tool] = ToolNames(run[a].calls)

\* a step() that starts on agent a starts with an empty history, and the
\* history of a step() changes only when its own handler registers the call
\* it has executed
HistoryIsLocal(a) ==
    /\ run'[a].turn # run[a].turn =>
          /\ run'[a].turn = run[a].turn + 1
          /\ run'[a].history = <<>>
          /\ run'[a].calls = <<>>
    /\ (run'[a].turn = run[a].turn /\ run'[a].history # run[a].history) =>
          /\ run[a].pc \in {"handling", "broadcasting"}
          /\ Len(run'[a].history) = Len(run[a].history) + 1
          /\ IsPrefix(run[a].history, run'[a].history)
          /\ Last(run'[a].history).tool = run[a].response.tool

\* C30: each step() invocation has its own solver with an empty call
\* history; the call history of one turn is not visible to a later turn of
\* the same agent nor to the step() of another agent, the nested step()
\* calls a broadcast runs concurrently included.
C30_FreshSolverPerStep ==
    /\ [](\A a \in Agents : OwnHistory(a))
    /\ [][\A a \in Agents : HistoryIsLocal(a)]_vars

\* the second broadcast of a turn is running: its sender has one call in its
\* history, w1 is at the start of its second turn with an empty history, and
\* w2 has registered a call in its first turn
C30_Witness ==
    /\ run["mgr"].pc = "broadcasting"
    /\ Len(run["mgr"].history) = 1
    /\ run["w1"].turn = 2
    /\ run["w1"].pc = "awaiting_model"
    /\ run["w1"].history = <<>>
    /\ run["w2"].turn = 1
    /\ Len(run["w2"].history) = 1


(***************************************************************************)
(* C27.  The system message is rewritten only when the compiled memory     *)
(* string is not contained verbatim in the text of the current system      *)
(* message; a rewrite replaces position 0 of the in-context window only:   *)
(* every other in-context message is unchanged and keeps its position.     *)
(***************************************************************************)
\* the step has rebuilt the memory and rewritten the system message
Rewrote ==
    \/ engine'.rewrites # engine.rewrites
    \/ engine'.db_system # engine.db_system
    \/ /\ engine'.pc = "awaiting_model"
       /\ engine'.log # engine.log
       /\ engine'.in_context_messages[1] # engine'.given[1]

C27_RewriteOnlyWhenNotContained ==
    [][/\ Rewrote =>
            /\ ~Contains(engine'.given[1].text, engine.blocks)
            /\ engine'.db_system = engine'.in_context_messages[1].text
       /\ (engine'.pc = "awaiting_model" /\ engine'.log # engine.log) =>
            /\ Len(engine'.in_context_messages) = Len(engine'.given)
            /\ \A i \in 2..Len(engine'.given) :
                  engine'.in_context_messages[i] = engine'.given[i]]_vars

\* a window of several messages was sent to the model with a rewritten
\* system message
C27_Witness ==
    /\ engine.pc = "awaiting_model"
    /\ Len(engine.given) >= 3
    /\ engine.in_context_messages[1] # engine.given[1]
    /\ Tail(engine.in_context_messages) = Tail(engine.given)


(***************************************************************************)
(* C28.  Within one step(), if the memory of the agent does not change     *)
(* between iterations, the persisted system message is rewritten at most   *)
(* once: an iteration after a rebuild sees the rebuilt text in its window  *)
(* and skips the rewrite.                                                  *)
(***************************************************************************)
C28_RewrittenAtMostOnce ==
    engine.edits = 0 => engine.rewrites <= 1


(***************************************************************************)
(* C25.  Order of the events of one step(): the inbound message is         *)
(* persisted before the first LLM call; in every iteration the LLM call is *)
(* followed by the tool execution, the registration with the solver, the   *)
(* persistence of the tool-call and tool-result messages and the decision  *)
(* to continue or to finish, in this order; and nothing follows the        *)
(* return: no LLM call, no tool execution, no persistence.                 *)
(***************************************************************************)
\* the events that may follow an event of the turn
FollowersOf(event) ==
    CASE event = "persist_input"    -> {"rewrite_system", "llm_call", "return"}
      [] event = "rewrite_system"   -> {"llm_call"}
      [] event = "llm_call"         -> {"llm_reply", "llm_error"}
      [] event = "llm_reply"        -> {"execute_tool"}
      [] event = "execute_tool"     -> {"tool_returned"}
      [] event = "tool_returned"    -> {"register"}
      [] event = "register"         -> {"resolve_continue"}
      [] event = "resolve_continue" -> {"persist"}
      [] event = "persist"          -> {"continue", "finish"}
      [] event = "continue"         -> {"rewrite_system", "llm_call", "return"}
      [] event = "finish"           -> {"return"}
      [] OTHER                      -> {}

EventsOf(log, event) == {i \in 1..Len(log) : log[i] = event}

C25_EventOrder ==
    LET log == engine.log
    IN  /\ log # <<>> => log[1] = "persist_input"
        /\ \A i \in 1..(Len(log) - 1) : log[i + 1] \in FollowersOf(log[i])
        /\ Cardinality(EventsOf(log, "llm_call")) <= engine.max_steps
        /\ engine.pc = "done" <=> (log # <<>> /\ log[Len(log)] = "return")
        /\ engine.pc \in {"done", "raised"} => ~ENABLED TurnNext

\* a step() of two iterations has returned
C25_Witness ==
    /\ engine.pc = "done"
    /\ Cardinality(EventsOf(engine.log, "llm_call")) = 2
    /\ Cardinality(EventsOf(engine.log, "persist")) = 2
    /\ "finish" \in {engine.log[i] : i \in 1..Len(engine.log)}


(***************************************************************************)
(* C31.  After every completed iteration of the step loop, the calls       *)
(* registered with the solver in this turn, the tool executions attempted  *)
(* and the tool-result messages persisted are equally many, whether each   *)
(* execution succeeded or failed: a failed or not-found call advances the  *)
(* rule state exactly like a successful one.                               *)
(***************************************************************************)
\* no iteration of the run was left by an exception inside the handler
IterationsCompleted(r) ==
    \/ r.pc \in {"awaiting_model", "handling", "broadcasting", "done"}
    \/ r.pc = "raised" /\ r.error \in {"ValueError", "LLMError", "TypeError"}

C31_RegisteredExecutedPersisted ==
    \A a \in Agents :
        LET r == run[a]
            results == OfRole(r.persisted, "tool")
        IN  IterationsCompleted(r) =>
                /\ Len(r.history) = Len(r.calls)
                /\ Len(results) = Len(r.calls)
                /\ \A k \in 1..Len(r.calls) :
                      /\ r.history[k] = register_tool_call(<<>>, r.calls[k].tool)[1]
                      /\ results[k].name = r.calls[k].tool
                      /\ results[k].success = r.calls[k].success

\* a call of a tool that is not attached and a call that failed were both
\* registered and the loop went on after them
C31_Witness ==
    LET r == run["mgr"]
    IN  /\ r.pc \in {"awaiting_model", "done"}
        /\ Len(r.calls) >= 2
        /\ Len(r.history) = Len(r.calls)
        /\ \E k \in 1..Len(r.calls) :
              r.calls[k].tool \notin ToolsOf("mgr", scenario) /\ ~r.calls[k].success
        /\ \E k \in 1..Len(r.calls) :
              r.calls[k].tool \in ToolsOf("mgr", scenario) /\ ~r.calls[k].success


(***************************************************************************)
(* C32.  Inner-thoughts completeness: inner_thoughts_complete is false on  *)
(* entry to a tool-use block; it becomes true at the first JSON delta      *)
(* after which the parse of the accumulated arguments has more than one    *)
(* top-level key and contains the inner-thoughts key, and not before; once *)
(* true it stays true until the next tool-use block starts.                *)
(***************************************************************************)
\* process() has read one more event, of the type and kind
Reads(type, kind) ==
    /\ Len(stream'.consumed) = Len(stream.consumed) + 1
    /\ Last(stream'.consumed).type = type
    /\ Last(stream'.consumed).kind = kind

\* the parse of the arguments accumulated so far has more than one top-level
\* key and contains the inner-thoughts key
ParseComplete(self) ==
    LET parsed == optimistic_json_parser_parse(Flatten(self.accumulated_tool_call_args))
    IN  Cardinality(DOMAIN parsed) > 1 /\ INNER_THOUGHTS_KWARG \in DOMAIN parsed

\* the flag is reset by the start of a tool-use block and by nothing else,
\* and set by a JSON delta and by nothing else
CompleteFrame ==
    /\ Reads("start", "tool_use") => ~interface'.inner_thoughts_complete
    /\ ~Reads("start", "tool_use") =>
          (interface.inner_thoughts_complete => interface'.inner_thoughts_complete)
    /\ ~(Reads("delta", "json") /\ stream'.error = "") =>
          (interface'.inner_thoughts_complete => interface.inner_thoughts_complete)

\* a JSON delta read while the flag is false
IncompleteDelta ==
    /\ Reads("delta", "json")
    /\ stream'.error = ""
    /\ ~interface.inner_thoughts_complete

\* the statement of the claim: the flag is set by the parse alone
C32_CompleteWhenParsed ==
    [][/\ CompleteFrame
       /\ IncompleteDelta =>
             (interface'.inner_thoughts_complete <=> ParseComplete(interface'))]_vars

\* amended: the parse decides when the inner thoughts travel in the
\* arguments (put_inner_thoughts_in_kwarg); when they do not, the flag
\* becomes true at the first JSON delta of the block, whatever the parse
C32_InnerThoughtsComplete ==
    [][/\ CompleteFrame
       /\ IncompleteDelta =>
             (interface'.inner_thoughts_complete <=>
                 (~interface.put_inner_thoughts_in_kwarg \/ ParseComplete(interface')))]_vars

\* the inner thoughts travel in the arguments and became complete at a JSON
\* delta that was not the first of its block
C32_Witness ==
    LET args == interface.accumulated_tool_call_args
        before == [interface EXCEPT !.accumulated_tool_call_args =
                                        SubSeq(args, 1, Len(args) - 1)]
    IN  /\ interface.put_inner_thoughts_in_kwarg
        /\ interface.anthropic_mode = "TOOL_USE"
        /\ interface.inner_thoughts_complete
        /\ Cardinality(ToolStarts) = 1
        /\ Len(args) >= 2
        /\ IsJSONDelta(Last(stream.consumed))
        /\ ParseComplete(interface)
        /\ ~ParseComplete(before)


(***************************************************************************)
(* C33.  On a block stop read in TOOL_USE mode with a non-empty buffer,    *)
(* all buffered events are emitted in FIFO order and the buffer is         *)
(* emptied; after any block stop the mode is NONE.                         *)
(***************************************************************************)
BlockStopFlushes ==
    Reads("stop", "") =>
        /\ interface'.anthropic_mode = "NONE"
        /\ (interface.anthropic_mode = "TOOL_USE" /\ interface.tool_call_buffer # <<>>) =>
              /\ stream'.yielded = stream.yielded \o interface.tool_call_buffer
              /\ interface'.tool_call_buffer = <<>>

C33_BlockStopFlush == [][BlockStopFlushes]_vars

\* a tool-use block ended before its inner thoughts were complete: the
\* announcement and the deltas held back were emitted by the block stop
C33_Witness ==
    /\ stream.error = ""
    /\ Cardinality(ToolStarts) = 1
    /\ Last(stream.consumed).type = "stop"
    /\ IsJSONDelta(stream.consumed[Len(stream.consumed) - 1])
    /\ ~interface.inner_thoughts_complete
    /\ interface.anthropic_mode = "NONE"
    /\ interface.tool_call_buffer = <<>>
    /\ Len(ToolCallEvents(stream.yielded)) >= 3
    /\ ToolCallEvents(stream.yielded)[1].name # NoTool


(***************************************************************************)
(* C34.  No buffered tool-call event is lost: on every event sequence that *)
(* raises no integrity error, every event placed in the tool-call buffer   *)
(* is emitted exactly once, no later than the block stop that follows it,  *)
(* and the buffer is empty whenever the mode is NONE.                      *)
(***************************************************************************)
\* the tool-call events emitted, followed by those held back
EmittedThenBuffered(self, s) == ToolCallEvents(s.yielded) \o self.tool_call_buffer

\* a step emits or buffers new events after the ones there were, in their
\* order, and a block stop leaves nothing in the buffer
BufferedEventsKept ==
    /\ IsPrefix(EmittedThenBuffered(interface, stream), EmittedThenBuffered(interface', stream'))
    /\ IsPrefix(ToolCallEvents(stream.yielded), ToolCallEvents(stream'.yielded))
    /\ Reads("stop", "") => interface'.tool_call_buffer = <<>>

C34_NoBufferedEventLost ==
    /\ [](interface.anthropic_mode = "NONE" => interface.tool_call_buffer = <<>>)
    /\ [][stream'.error = "" => BufferedEventsKept]_vars


(***************************************************************************)
(* C35.  Suffix-only emission: across the JSON deltas of a tool-use block  *)
(* the reasoning events emitted for the inner-thoughts key, concatenated   *)
(* in order, equal the final parsed inner-thoughts value, and in the       *)
(* assistant-message shortcut with the send-message tool the assistant     *)
(* events concatenated equal the final message value; no character is      *)
(* emitted twice and none is skipped.  Stated delta by delta: what a JSON  *)
(* delta emits for a key is exactly what the delta adds to the value of    *)
(* the key in the parse of the block's arguments.                          *)
(***************************************************************************)
\* the position at which the last tool-use block of the stream was opened
LastToolStart(s) ==
    LET starts == {k \in 1..Len(s.consumed) :
                      s.consumed[k].type = "start" /\ s.consumed[k].kind = "tool_use"}
    IN  CHOOSE k \in starts : \A j \in starts : j <= k

\* the JSON fragments of the last tool-use block, in order of arrival
BlockFragments(s) ==
    LET deltas == SelectSeq(SubSeq(s.consumed, LastToolStart(s) + 1, Len(s.consumed)),
                            IsJSONDelta)
    IN  [k \in 1..Len(deltas) |-> deltas[k].data]

\* the parse of the arguments of the last tool-use block
BlockParse(s) == optimistic_json_parser_parse(Flatten(BlockFragments(s)))

\* the text of the messages of the type among those the step yielded
YieldedText(type) ==
    LET new == SelectSeq(Suffix(stream'.yielded, stream.yielded), LAMBDA m : m.type = type)
    IN  Flatten([k \in 1..Len(new) |-> new[k].arguments])

\* what the block's parse gained for the key in the step
Gained(key) == Suffix(Get(BlockParse(stream'), key), Get(BlockParse(stream), key))

SuffixOnly ==
    (Reads("delta", "json") /\ stream'.error = "") =>
        /\ YieldedText("reasoning") = Gained(INNER_THOUGHTS_KWARG)
        /\ (interface.use_assistant_message /\ interface.tool_call_name = DEFAULT_MESSAGE_TOOL)
              => YieldedText("assistant") = Gained(DEFAULT_MESSAGE_TOOL_KWARG)

C35_SuffixOnlyEmission == [][SuffixOnly]_vars

\* the same for the first tool-use block of a stream only
SuffixOnlyInFirstBlock == [][Cardinality(ToolStarts) = 1 => SuffixOnly]_vars


(***************************************************************************)
(* C36.  When one response stream has more than one tool-use block, the    *)
(* accumulator state used for a block belongs to that block only: the tool *)
(* call get_tool_call_object returns has the name of the last block and    *)
(* the concatenation of that block's fragments alone as its arguments, and *)
(* the parse the next diff is taken against is the parse of that block's   *)
(* own arguments.                                                          *)
(***************************************************************************)
C36_AccumulatorPerBlock ==
    (ToolStarts # {} /\ stream.error = "") =>
        /\ get_tool_call_object(interface).name
              = stream.consumed[LastToolStart(stream)].data[1]
        /\ get_tool_call_object(interface).arguments = Flatten(BlockFragments(stream))
        /\ interface.previous_parse = BlockParse(stream)


(***************************************************************************)
(* C37.  In every configuration of the accumulator, each tool-call         *)
(* argument delta emitted for a tool-use block is preceded in the emitted  *)
(* sequence by the announcement that carries the tool name (and the        *)
(* tool_call_id) of that block.                                            *)
(***************************************************************************)
IsAnnouncement(m) == m.type = "tool_call" /\ m.name # NoTool

IsArgumentDelta(m) == m.type = "tool_call" /\ m.name = NoTool

\* every argument delta the step emits comes after an announcement, and the
\* last announcement before it is the one of the open block
DeltasAnnounced ==
    \A k \in (Len(stream.yielded) + 1)..Len(stream'.yielded) :
        IsArgumentDelta(stream'.yielded[k]) =>
            \E j \in 1..(k - 1) :
                /\ IsAnnouncement(stream'.yielded[j])
                /\ stream'.yielded[j].name = interface.tool_call_name
                /\ \A i \in (j + 1)..(k - 1) : ~IsAnnouncement(stream'.yielded[i])

C37_AnnouncedBeforeDeltas == [][DeltasAnnounced]_vars

\* the same for the interfaces that emit raw tool-call deltas for every tool
AnnouncedWithoutShortcut == [][~interface.use_assistant_message => DeltasAnnounced]_vars


(***************************************************************************)
(* C38.  Post-hoc reconstruction: for any recorded sequence of reasoning   *)
(* and redacted-reasoning messages, get_reasoning_content returns one      *)
(* content block per maximal run of consecutive messages of the same kind, *)
(* in order, so that no two adjacent blocks are of the same kind; the text *)
(* of each block is the concatenation of the texts of its run in order;    *)
(* and a reasoning block carries a signature exactly when some member of   *)
(* its run carried one.                                                    *)
(***************************************************************************)
\* the positions at which a maximal run of messages of one kind starts
RunStarts(msgs) ==
    {k \in 1..Len(msgs) : k = 1 \/ msgs[k].kind # msgs[k - 1].kind}

\* the j-th maximal run
RunOf(msgs, j) ==
    LET starts == RunStarts(msgs)
        StartOf(n) == CHOOSE k \in starts : Cardinality({i \in starts : i < k}) = n - 1
        first == StartOf(j)
        last == IF j = Cardinality(starts) THEN Len(msgs) ELSE StartOf(j + 1) - 1
    IN  SubSeq(msgs, first, last)

BlockKind(content) ==
    IF content.type = "redacted_reasoning" THEN "redacted" ELSE "reasoning"

\* one block per maximal run, of the kind of its run and with a signature
\* exactly when a member of the run had one
BlocksOfRuns(msgs, result) ==
    /\ Len(result) = Cardinality(RunStarts(msgs))
    /\ \A j \in 1..Len(result) :
          /\ BlockKind(result[j]) = RunOf(msgs, j)[1].kind
          /\ j > 1 => BlockKind(result[j]) # BlockKind(result[j - 1])
          /\ BlockKind(result[j]) = "reasoning" =>
                (result[j].signature # NoSignature <=>
                    \E k \in 1..Len(RunOf(msgs, j)) :
                        RunOf(msgs, j)[k].signature # NoSignature)

\* the statement of the claim: the text of a block is the texts of its run
C38_ReconstructionVerbatim ==
    call.fn = "reasoning_content" =>
        /\ BlocksOfRuns(call.reasoning_messages, call.result)
        /\ \A j \in 1..Len(call.result) :
              call.result[j].text = JoinTexts(RunOf(call.reasoning_messages, j))

\* amended: the text of a block is the texts of its run, less a closing
\* "</thinking>" at the end of a block of reasoning that is not native
C38_Reconstruction ==
    call.fn = "reasoning_content" =>
        /\ BlocksOfRuns(call.reasoning_messages, call.result)
        /\ \A j \in 1..Len(call.result) :
              LET group == RunOf(call.reasoning_messages, j)
                  joined == JoinTexts(group)
                  native == \E k \in 1..Len(group) : group[k].source = "reasoner_model"
              IN  call.result[j].text =
                      IF /\ BlockKind(call.result[j]) = "reasoning"
                         /\ ~native
                         /\ joined # <<>>
                         /\ Last(joined) = "</thinking>"
                      THEN SubSeq(joined, 1, Len(joined) - 1)
                      ELSE joined

\* native reasoning, its signature and redacted reasoning were recorded:
\* two blocks, the first with the text and the signature
C38_Witness ==
    /\ call.fn = "reasoning_content"
    /\ call.reasoning_messages =
          <<RecordedReasoning("reasoner_model", <<"th">>, NoSignature),
            RecordedReasoning("reasoner_model", <<>>, "sig"),
            RecordedHidden(<<"r">>)>>
    /\ Len(call.result) = 2
    /\ call.result[1] = [type |-> "reasoning", text |-> <<"th">>, signature |-> "sig"]
    /\ call.result[2].type = "redacted_reasoning"


(***************************************************************************)
(* C39.  A broadcast never dispatches to the sending agent itself: the     *)
(* agent whose step() executes the broadcast tool is not among the         *)
(* targets, so a broadcast cannot re-enter the step loop of its sender.    *)
(***************************************************************************)
C39_SenderNotTargeted ==
    call.fn = "broadcast_targets" => call.sender \notin call.result


(***************************************************************************)
(* C40.  anthropic_chat_completions_process_stream calls stream_start      *)
(* exactly once and stream_end exactly once per invocation, whether the    *)
(* chunk stream completes normally or the processing of a chunk raises.    *)
(***************************************************************************)
CallsOf(calls, name) == Len(SelectSeq(calls, LAMBDA c : c = name))

C40_StartAndEndOnce ==
    call.fn = "process_stream" =>
        /\ CallsOf(call.result.calls, "stream_start") = 1
        /\ CallsOf(call.result.calls, "stream_end") = 1

\* the same for the invocations that return
StartAndEndOnceOnReturn ==
    (call.fn = "process_stream" /\ call.result.outcome.outcome = "returned") =>
        /\ CallsOf(call.result.calls, "stream_start") = 1
        /\ CallsOf(call.result.calls, "stream_end") = 1

=============================================================================
